---- MODULE Spec2Model ----
(***************************************************************************)
(* A model of the pivot-engine SQL engine: the null-bitmask column store,  *)
(* the catalog, the expression evaluator and the SELECT / DML executor.    *)
(* Rust vectors are TLA+ sequences, so every index here is the Rust index  *)
(* plus one.  Option<T> is a sequence of length 0 or 1; Result<T> is a     *)
(* record whose ok field tells the two variants apart.                     *)
(***************************************************************************)
EXTENDS Integers, Sequences, FiniteSets, TLC

VARIABLES catalog, statement, last

vars == <<catalog, statement, last>>

(* ------------------------------------------------------------------ *)
(* Option and Result                                                  *)
(* ------------------------------------------------------------------ *)

None == << >>
Some(x) == << x >>
is_some(o) == Len(o) = 1
unwrap(o) == o[1]

Ok(v) == [ok |-> TRUE, val |-> v, err |-> ""]
Err(kind) == [ok |-> FALSE, val |-> << >>, err |-> kind]

Min2(a, b) == IF a < b THEN a ELSE b

(* ------------------------------------------------------------------ *)
(* column.rs: the scalar value domain.  A Float64 carries an integral *)
(* value (i stands for the float i.0); the other payloads are exact.  *)
(* ------------------------------------------------------------------ *)

Null == [tag |-> "Null", i |-> 0, s |-> ""]
Boolean(b) == [tag |-> "Boolean", i |-> IF b THEN 1 ELSE 0, s |-> ""]
Int64(n) == [tag |-> "Int64", i |-> n, s |-> ""]
Float64(n) == [tag |-> "Float64", i |-> n, s |-> ""]
Utf8(x) == [tag |-> "Utf8", i |-> 0, s |-> x]
Date(d) == [tag |-> "Date", i |-> d, s |-> ""]

is_null(v) == v.tag = "Null"

is_leap_year(year) ==
    (year % 4 = 0 /\ year % 100 # 0) \/ (year % 400 = 0)

days_in_month(year, month) ==
    CASE month \in {1, 3, 5, 7, 8, 10, 12} -> 31
      [] month \in {4, 6, 9, 11} -> 30
      [] month = 2 -> (IF is_leap_year(year) THEN 29 ELSE 28)
      [] OTHER -> 30

days_of_year(year) == IF is_leap_year(year) THEN 366 ELSE 365

RECURSIVE year_walk(_, _)
year_walk(remaining, year) ==
    IF remaining >= 0 /\ remaining < days_of_year(year)
    THEN <<remaining, year>>
    ELSE IF remaining < 0
         THEN year_walk(remaining + days_of_year(year - 1), year - 1)
         ELSE year_walk(remaining - days_of_year(year), year + 1)

RECURSIVE month_walk(_, _, _)
month_walk(remaining, year, month) ==
    IF remaining < days_in_month(year, month)
    THEN <<remaining, month>>
    ELSE month_walk(remaining - days_in_month(year, month), year, month + 1)

epoch_days_to_ymd(days) ==
    LET in_month(year, mw) == <<year, mw[2], mw[1] + 1>>
        in_year(yw) == in_month(yw[2], month_walk(yw[1], yw[2], 1))
    IN  in_year(year_walk(days, 1970))

(* The days of the years from..to-1 summed: 365 for each and one more for each leap year *)
years_sum(from, to) ==
    IF from >= to THEN 0
    ELSE 365 * (to - from) + Cardinality({y \in from..(to - 1) : is_leap_year(y)})

RECURSIVE months_sum(_, _)
months_sum(year, month) ==
    IF month <= 1 THEN 0
    ELSE days_in_month(year, month - 1) + months_sum(year, month - 1)

ymd_to_epoch_days(year, month, day) ==
    (IF year >= 1970 THEN years_sum(1970, year) ELSE 0 - years_sum(year, 1970))
    + months_sum(year, month) + (day - 1)

(* format!("{:02}") and format!("{:04}") on the non-negative fields of a date *)
Pad2(n) == IF n < 10 THEN "0" \o ToString(n) ELSE ToString(n)
Pad4(n) ==
    IF n < 10 THEN "000" \o ToString(n)
    ELSE IF n < 100 THEN "00" \o ToString(n)
    ELSE IF n < 1000 THEN "0" \o ToString(n)
    ELSE ToString(n)

epoch_days_to_date_string(days) ==
    LET format(ymd) == Pad4(ymd[1]) \o "-" \o Pad2(ymd[2]) \o "-" \o Pad2(ymd[3])
    IN  format(epoch_days_to_ymd(days))

(* The three '-'-separated fields of a string as integers, when all three *)
(* parse: splitn(3, '-') and str::parse over the date strings of the model. *)
split_ymd(s) ==
    CASE s = "1970-01-01" -> Some(<<1970, 1, 1>>)
      [] s = "1970-01-02" -> Some(<<1970, 1, 2>>)
      [] s = "1969-12-31" -> Some(<<1969, 12, 31>>)
      [] s = "1970-13-01" -> Some(<<1970, 13, 1>>)
      [] OTHER -> None

date_string_to_epoch_days(s) ==
    LET checked(p) ==
            IF ~is_some(p) THEN None
            ELSE LET f == unwrap(p)
                 IN  IF f[2] < 1 \/ f[2] > 12 \/ f[3] < 1 \/ f[3] > 31 THEN None
                     ELSE Some(ymd_to_epoch_days(f[1], f[2], f[3]))
    IN  checked(split_ymd(s))

(* impl Display for ScalarValue *)
Display(v) ==
    CASE v.tag = "Boolean" -> (IF v.i = 1 THEN "true" ELSE "false")
      [] v.tag = "Int64" -> ToString(v.i)
      [] v.tag = "Float64" -> ToString(v.i) \o ".0"
      [] v.tag = "Utf8" -> v.s
      [] v.tag = "Date" -> epoch_days_to_date_string(v.i)
      [] OTHER -> "NULL"

(* #[derive(Debug)] for ScalarValue: format!("{:?}", v) *)
DebugFmt(v) ==
    CASE v.tag = "Boolean" -> "Boolean(" \o (IF v.i = 1 THEN "true" ELSE "false") \o ")"
      [] v.tag = "Int64" -> "Int64(" \o ToString(v.i) \o ")"
      [] v.tag = "Float64" -> "Float64(" \o ToString(v.i) \o ".0)"
      [] v.tag = "Utf8" -> "Utf8(\"" \o v.s \o "\")"
      [] v.tag = "Date" -> "Date(" \o ToString(v.i) \o ")"
      [] OTHER -> "Null"

(* str::to_uppercase / eq_ignore_ascii_case over the identifiers of the model *)
to_uppercase(s) ==
    CASE s = "t" -> "T"
      [] s = "u" -> "U"
      [] s = "a" -> "A"
      [] s = "b" -> "B"
      [] s = "p" -> "P"
      [] s = "k" -> "K"
      [] s = "r" -> "R"
      [] s = "n" -> "N"
      [] s = "name" -> "NAME"
      [] s = "count" -> "COUNT"
      [] s = "sum" -> "SUM"
      [] s = "rank" -> "RANK"
      [] s = "abs" -> "ABS"
      [] s = "x" -> "X"
      [] s = "s" -> "S"
      [] s = "c" -> "C"
      [] s = "d" -> "D"
      [] s = "g" -> "G"
      [] s = "val" -> "VAL"
      [] OTHER -> s

to_lowercase(s) ==
    CASE s = "COUNT" -> "count"
      [] s = "SUM" -> "sum"
      [] s = "RANK" -> "rank"
      [] s = "ABS" -> "abs"
      [] s = "MIN" -> "min"
      [] s = "MAX" -> "max"
      [] OTHER -> s

eq_ignore_ascii_case(x, y) == to_uppercase(x) = to_uppercase(y)

(* Position of a string in the byte-wise order of str::cmp, over the strings *)
(* the model stores.                                                        *)
StrRank(x) ==
    CASE x = "" -> 0
      [] x = "1" -> 1
      [] x = "1970-01-02" -> 2
      [] x = "E" -> 3
      [] x = "M" -> 4
      [] x = "bad" -> 5
      [] x = "x" -> 6
      [] x = "y" -> 7
      [] OTHER -> 8

IntCmp(x, y) == IF x < y THEN "Less" ELSE IF x > y THEN "Greater" ELSE "Equal"

reverse(ord) ==
    CASE ord = "Less" -> "Greater" [] ord = "Greater" -> "Less" [] OTHER -> "Equal"

is_truthy(v) ==
    CASE v.tag = "Boolean" -> v.i = 1
      [] v.tag = "Null" -> FALSE
      [] v.tag = "Int64" -> v.i # 0
      [] v.tag = "Float64" -> v.i # 0
      [] v.tag = "Utf8" -> v.s # ""
      [] OTHER -> TRUE

scalar_eq(a, b) ==
    CASE a.tag = "Null" \/ b.tag = "Null" -> FALSE
      [] a.tag \in {"Int64", "Float64"} /\ b.tag \in {"Int64", "Float64"} -> a.i = b.i
      [] a.tag = "Utf8" /\ b.tag = "Utf8" -> a.s = b.s
      [] a.tag = "Boolean" /\ b.tag = "Boolean" -> a.i = b.i
      [] a.tag = "Date" /\ b.tag = "Date" -> a.i = b.i
      [] OTHER -> FALSE

scalar_cmp(a, b) ==
    CASE a.tag = "Null" /\ b.tag = "Null" -> "Equal"
      [] a.tag = "Null" /\ b.tag # "Null" -> "Greater"
      [] a.tag # "Null" /\ b.tag = "Null" -> "Less"
      [] a.tag \in {"Int64", "Float64"} /\ b.tag \in {"Int64", "Float64"} -> IntCmp(a.i, b.i)
      [] a.tag = "Utf8" /\ b.tag = "Utf8" -> IntCmp(StrRank(a.s), StrRank(b.s))
      [] a.tag = "Boolean" /\ b.tag = "Boolean" -> IntCmp(a.i, b.i)
      [] a.tag = "Date" /\ b.tag = "Date" -> IntCmp(a.i, b.i)
      [] OTHER -> "Equal"

scalar_to_key(v) == IF v.tag = "Null" THEN "\\x00NULL\\x00" ELSE Display(v)

scalar_to_string(v) == IF v.tag = "Null" THEN "" ELSE Display(v)

(* ------------------------------------------------------------------ *)
(* schema.rs, bitmap.rs, datastore.rs: the null-bitmask column store  *)
(* ------------------------------------------------------------------ *)

ColumnDef(name, data_type, nullable) ==
    [name |-> name, data_type |-> data_type, nullable |-> nullable]

find_column_index(schema, name) ==
    LET first(hits) == IF hits = {} THEN None
                       ELSE Some(CHOOSE i \in hits : \A j \in hits : i <= j)
    IN  first({i \in 1..Len(schema) : eq_ignore_ascii_case(schema[i].name, name)})

ColumnStorage_new ==
    [booleans |-> << >>, int64s |-> << >>, float64s |-> << >>,
     utf8s |-> << >>, nullmask |-> << >>]

DataStore_new(schema) ==
    [schema |-> schema,
     columns |-> [i \in 1..Len(schema) |-> ColumnStorage_new],
     row_count |-> 0]

(* Vec::get(idx).unwrap_or(default), idx counted from 1 *)
get_or(buf, idx, default) == IF idx >= 1 /\ idx <= Len(buf) THEN buf[idx] ELSE default

NullBitmask_get(bits, idx) == get_or(bits, idx, FALSE)

NullBitmask_set(bits, idx, is_valid) ==
    IF idx <= Len(bits) THEN [bits EXCEPT ![idx] = is_valid] ELSE bits

coerce_value(val, target) ==
    CASE val.tag = "Null" -> Ok(Null)
      [] val.tag = "Int64" /\ target = "Float64" -> Ok(Float64(val.i))
      [] val.tag = "Utf8" /\ target = "Date" ->
            (LET dated(d) == IF is_some(d) THEN Ok(Date(unwrap(d))) ELSE Err("TypeError")
             IN  dated(date_string_to_epoch_days(val.s)))
      [] val.tag = "Int64" /\ target = "Date" -> Ok(Date(val.i))
      [] val.tag = "Float64" /\ target = "Int64" -> Ok(Int64(val.i))
      [] OTHER -> Ok(val)

(* The neutral slot pushed for a NULL is chosen by the column's data type; *)
(* the slot pushed for a value is chosen by the value's own variant.       *)
push_to_column(store, col_idx, val) ==
    LET col == store.columns[col_idx]
        data_type == store.schema[col_idx].data_type
        slot ==
            CASE val.tag = "Null" ->
                    (CASE data_type = "Boolean" -> [col EXCEPT !.booleans = Append(@, FALSE)]
                       [] data_type \in {"Int64", "Date"} -> [col EXCEPT !.int64s = Append(@, 0)]
                       [] data_type = "Float64" -> [col EXCEPT !.float64s = Append(@, 0)]
                       [] OTHER -> [col EXCEPT !.utf8s = Append(@, "")])
              [] val.tag = "Boolean" -> [col EXCEPT !.booleans = Append(@, val.i = 1)]
              [] val.tag = "Int64" -> [col EXCEPT !.int64s = Append(@, val.i)]
              [] val.tag = "Float64" -> [col EXCEPT !.float64s = Append(@, val.i)]
              [] val.tag = "Utf8" -> [col EXCEPT !.utf8s = Append(@, val.s)]
              [] OTHER -> [col EXCEPT !.int64s = Append(@, val.i)]
    IN  [store EXCEPT !.columns[col_idx] =
            [slot EXCEPT !.nullmask = Append(@, ~is_null(val))]]

(* The second loop of append_row: coerce and push column by column; a failed *)
(* coercion returns at once, with the columns before it already pushed.      *)
RECURSIVE append_row_push(_, _, _)
append_row_push(store, values, i) ==
    IF i > Len(values) THEN [store |-> store, res |-> Ok(<< >>)]
    ELSE LET push(coerced) ==
                 IF ~coerced.ok THEN [store |-> store, res |-> coerced]
                 ELSE append_row_push(push_to_column(store, i, coerced.val), values, i + 1)
         IN  push(coerce_value(values[i], store.schema[i].data_type))

append_row(store, values) ==
    IF Len(values) # Len(store.schema)
    THEN [store |-> store, res |-> Err("SchemaError")]
    ELSE IF \E i \in 1..Len(values) : is_null(values[i]) /\ ~store.schema[i].nullable
    THEN [store |-> store, res |-> Err("NullError")]
    ELSE LET count(pushed) ==
                 IF pushed.res.ok
                 THEN [store |-> [pushed.store EXCEPT !.row_count = @ + 1], res |-> Ok(<< >>)]
                 ELSE pushed
         IN  count(append_row_push(store, values, 1))

get_value_by_index(store, row, col_idx) ==
    IF row > store.row_count THEN Err("IndexOutOfBounds")
    ELSE IF col_idx > Len(store.schema) THEN Err("IndexOutOfBounds")
    ELSE LET col == store.columns[col_idx]
             data_type == store.schema[col_idx].data_type
         IN  IF ~NullBitmask_get(col.nullmask, row) THEN Ok(Null)
             ELSE CASE data_type = "Boolean" -> Ok(Boolean(get_or(col.booleans, row, FALSE)))
                    [] data_type = "Int64" -> Ok(Int64(get_or(col.int64s, row, 0)))
                    [] data_type = "Float64" -> Ok(Float64(get_or(col.float64s, row, 0)))
                    [] data_type = "Utf8" -> Ok(Utf8(get_or(col.utf8s, row, "")))
                    [] OTHER -> Ok(Date(get_or(col.int64s, row, 0)))

get_row(store, row) ==
    LET gather(cells) ==
            IF \E i \in 1..Len(cells) : ~cells[i].ok THEN Err("IndexOutOfBounds")
            ELSE Ok([i \in 1..Len(cells) |-> cells[i].val])
    IN  gather([i \in 1..Len(store.schema) |-> get_value_by_index(store, row, i)])

(* if row < buf.len() { buf[row] = x } else { buf.push(x) } *)
put_or_push(buf, row, x) ==
    IF row <= Len(buf) THEN [buf EXCEPT ![row] = x] ELSE Append(buf, x)

set_value(store, row, col_idx, val) ==
    IF row > store.row_count THEN [store |-> store, res |-> Err("IndexOutOfBounds")]
    ELSE LET col == store.columns[col_idx]
             slot(v) ==
                 CASE v.tag = "Null" -> col
                   [] v.tag = "Boolean" -> [col EXCEPT !.booleans = put_or_push(@, row, v.i = 1)]
                   [] v.tag = "Int64" -> [col EXCEPT !.int64s = put_or_push(@, row, v.i)]
                   [] v.tag = "Float64" -> [col EXCEPT !.float64s = put_or_push(@, row, v.i)]
                   [] v.tag = "Utf8" -> [col EXCEPT !.utf8s = put_or_push(@, row, v.s)]
                   [] OTHER -> [col EXCEPT !.int64s = put_or_push(@, row, v.i)]
             write(coerced) ==
                 IF ~coerced.ok THEN [store |-> store, res |-> coerced]
                 ELSE [store |->
                          [store EXCEPT !.columns[col_idx] =
                              [slot(coerced.val) EXCEPT
                                  !.nullmask = NullBitmask_set(@, row, ~is_null(coerced.val))]],
                       res |-> Ok(<< >>)]
         IN  write(coerce_value(val, store.schema[col_idx].data_type))

(* The typed buffer that get_value_by_index consults for a column *)
type_buffer(col, data_type) ==
    CASE data_type = "Boolean" -> col.booleans
      [] data_type \in {"Int64", "Date"} -> col.int64s
      [] data_type = "Float64" -> col.float64s
      [] OTHER -> col.utf8s

(* ------------------------------------------------------------------ *)
(* sql/catalog.rs: tables keyed by the uppercased name                *)
(* ------------------------------------------------------------------ *)

(* The names a table can be stored under; a key mapped to None is absent. *)
TableKeys == {"T", "U"}

Catalog_new == [k \in TableKeys |-> None]

table_exists(cat, name) ==
    to_uppercase(name) \in DOMAIN cat /\ is_some(cat[to_uppercase(name)])

get_table(cat, name) ==
    IF table_exists(cat, name) THEN cat[to_uppercase(name)] ELSE None

(* *get_table_mut(name).unwrap() = store, and HashMap::insert *)
put_table(cat, name, store) == [cat EXCEPT ![to_uppercase(name)] = Some(store)]

create_table(cat, name, schema) ==
    IF table_exists(cat, name) THEN [cat |-> cat, created |-> FALSE]
    ELSE [cat |-> put_table(cat, name, DataStore_new(schema)), created |-> TRUE]

(* An IF NOT EXISTS that puts the new, empty table in place of the existing one *)
create_table_replacing(cat, name, schema) ==
    [cat |-> put_table(cat, name, DataStore_new(schema)), created |-> TRUE]

create_table_if_not_exists(cat, name, schema) ==
    IF ~table_exists(cat, name)
    THEN [cat |-> put_table(cat, name, DataStore_new(schema)), created |-> TRUE]
    ELSE [cat |-> cat, created |-> FALSE]

drop_table(cat, name) ==
    IF table_exists(cat, name)
    THEN [cat |-> [cat EXCEPT ![to_uppercase(name)] = None], dropped |-> TRUE]
    ELSE [cat |-> cat, dropped |-> FALSE]

(* ------------------------------------------------------------------ *)
(* sql/ast.rs: expressions, and sql/executor.rs: their evaluation     *)
(* ------------------------------------------------------------------ *)

Literal(v) == [e |-> "Literal", v |-> v]
Column(table, name) == [e |-> "Column", table |-> table, name |-> name]
BinaryOp(left, op, right) == [e |-> "BinaryOp", left |-> left, op |-> op, right |-> right]
Function(name, args, over) == [e |-> "Function", name |-> name, args |-> args, over |-> over]
WildcardExpr == [e |-> "Wildcard"]
IsNull(expr, negated) == [e |-> "IsNull", expr |-> expr, negated |-> negated]

OrderByItem(expr, ascending, nulls_first) ==
    [expr |-> expr, ascending |-> ascending, nulls_first |-> nulls_first]

WindowSpec(partition_by, order_by) ==
    [partition_by |-> partition_by, order_by |-> order_by]

Col(table, name) == [table |-> table, name |-> name]

RowSet(cols, rows) == [cols |-> cols, rows |-> rows]

first_index(hits) == CHOOSE i \in hits : \A j \in hits : i <= j

find_col_idx(cols, table, name) ==
    LET first_of(qual, dotted, plain) ==
            IF qual # {} THEN Some(first_index(qual))
            ELSE IF dotted # {} THEN Some(first_index(dotted))
            ELSE IF plain # {} THEN Some(first_index(plain))
            ELSE None
    IN  first_of({i \in 1..Len(cols) :
                     /\ is_some(table)
                     /\ is_some(cols[i].table)
                     /\ eq_ignore_ascii_case(unwrap(cols[i].table), unwrap(table))
                     /\ eq_ignore_ascii_case(cols[i].name, name)},
                 {i \in 1..Len(cols) :
                     /\ is_some(table)
                     /\ eq_ignore_ascii_case(cols[i].name, unwrap(table) \o "." \o name)},
                 {i \in 1..Len(cols) : eq_ignore_ascii_case(cols[i].name, name)})

(* a % b on i64 for b # 0: the remainder has the sign of a *)
i64_rem(a, b) ==
    LET magnitude(n) == IF n < 0 THEN 0 - n ELSE n
        m == magnitude(a) % magnitude(b)
    IN  IF a < 0 THEN 0 - m ELSE m

(* A panic: the call unwinds through every caller and returns nothing *)
Panic == Err("panic")

numeric_op(l, r, op) ==
    LET x == CASE op = "Add" -> l.i + r.i
               [] op = "Sub" -> l.i - r.i
               [] op = "Div" -> l.i \div r.i
               [] op = "Mod" -> i64_rem(l.i, r.i)
               [] OTHER -> l.i * r.i
    IN  CASE l.tag = "Int64" /\ r.tag = "Int64" -> Int64(x)
          [] l.tag \in {"Int64", "Float64"} /\ r.tag \in {"Int64", "Float64"} -> Float64(x)
          [] OTHER -> Null

eval_binary_op(op, l, r) ==
    IF is_null(l) \/ is_null(r)
    THEN CASE op = "And" ->
                (IF l = Boolean(FALSE) \/ r = Boolean(FALSE)
                 THEN Ok(Boolean(FALSE)) ELSE Ok(Null))
           [] op = "Or" ->
                (IF l = Boolean(TRUE) \/ r = Boolean(TRUE)
                 THEN Ok(Boolean(TRUE)) ELSE Ok(Null))
           [] OTHER -> Ok(Null)
    ELSE LET compared(equal, ord, lt, rt) ==
                 CASE op = "Eq" -> Ok(Boolean(equal))
                   [] op = "NotEq" -> Ok(Boolean(~equal))
                   [] op = "Lt" -> Ok(Boolean(ord = "Less"))
                   [] op = "LtEq" -> Ok(Boolean(ord # "Greater"))
                   [] op = "Gt" -> Ok(Boolean(ord = "Greater"))
                   [] op = "GtEq" -> Ok(Boolean(ord # "Less"))
                   [] op = "And" -> Ok(Boolean(lt /\ rt))
                   [] OTHER -> Ok(Boolean(lt \/ rt))
         IN  IF op \in {"Add", "Sub", "Mul"} THEN Ok(numeric_op(l, r, op))
             ELSE IF op = "Div"
             THEN (IF l.tag = "Int64" /\ r.tag = "Int64"
                   THEN (IF r.i = 0 THEN Err("SqlError") ELSE Ok(Float64(l.i \div r.i)))
                   ELSE Ok(numeric_op(l, r, op)))
             ELSE IF op = "Mod"
             THEN (IF l.tag = "Int64" /\ r.tag = "Int64" /\ r.i = 0
                   THEN Panic ELSE Ok(numeric_op(l, r, op)))
             ELSE compared(scalar_eq(l, r), scalar_cmp(l, r), is_truthy(l), is_truthy(r))

(* functions_scalar::call, for the one scalar function the model's queries use; *)
(* every other name (COUNT, SUM, RANK, ...) is in no dispatch table.            *)
functions_scalar_call(fname, evaled) ==
    IF fname = "ABS" /\ Len(evaled) >= 1
    THEN Some(CASE evaled[1].tag = "Int64" ->
                     Int64(IF evaled[1].i < 0 THEN 0 - evaled[1].i ELSE evaled[1].i)
                [] evaled[1].tag = "Float64" ->
                     Float64(IF evaled[1].i < 0 THEN 0 - evaled[1].i ELSE evaled[1].i)
                [] OTHER -> Null)
    ELSE None

RECURSIVE eval_expr(_, _, _)
eval_scalar_function(name, args, row, cols) ==
    LET or_null(hit) == IF is_some(hit) THEN Ok(unwrap(hit)) ELSE Ok(Null)
        call(evaled) ==
            IF \E i \in 1..Len(args) : ~evaled[i].ok
            THEN evaled[first_index({i \in 1..Len(args) : ~evaled[i].ok})]
            ELSE or_null(functions_scalar_call(to_uppercase(name),
                                               [i \in 1..Len(args) |-> evaled[i].val]))
    IN  call([i \in 1..Len(args) |-> eval_expr(args[i], row, cols)])

eval_expr(expr, row, cols) ==
    CASE expr.e = "Literal" -> Ok(expr.v)
      [] expr.e = "Column" ->
            (LET cell(idx) == IF ~is_some(idx) THEN Err("ColumnNotFound")
                              ELSE Ok(get_or(row, unwrap(idx), Null))
             IN  cell(find_col_idx(cols, expr.table, expr.name)))
      [] expr.e = "Wildcard" -> Ok(Null)
      [] expr.e = "BinaryOp" ->
            (LET both(l, r) == IF ~l.ok THEN l
                               ELSE IF ~r.ok THEN r
                               ELSE eval_binary_op(expr.op, l.val, r.val)
             IN  both(eval_expr(expr.left, row, cols), eval_expr(expr.right, row, cols)))
      [] expr.e = "Function" ->
            (IF is_some(expr.over) THEN Ok(Null)
             ELSE eval_scalar_function(expr.name, expr.args, row, cols))
      [] expr.e = "IsNull" ->
            (LET test(v) == IF ~v.ok THEN v
                            ELSE Ok(Boolean(is_null(v.val) # expr.negated))
             IN  test(eval_expr(expr.expr, row, cols)))
      [] OTHER -> Ok(Null)

(* ------------------------------------------------------------------ *)
(* sql/ast.rs: select items, table references, joins and statements   *)
(* ------------------------------------------------------------------ *)

SelectItem_Wildcard == [item |-> "Wildcard"]
SelectItem_TableWildcard(tname) == [item |-> "TableWildcard", tname |-> tname]
SelectItem_Expr(expr, alias) == [item |-> "Expr", expr |-> expr, alias |-> alias]

TableRef_Table(name, alias) == [ref |-> "Table", name |-> name, alias |-> alias]
TableRef_Subquery(query, alias) == [ref |-> "Subquery", query |-> query, alias |-> alias]

JoinCondition_On(expr) == [cond |-> "On", expr |-> expr]
JoinCondition_Using(col_names) == [cond |-> "Using", col_names |-> col_names]
JoinCondition_None == [cond |-> "None"]

Join(join_type, table, condition) ==
    [join_type |-> join_type, table |-> table, condition |-> condition]

SelectStatement(distinct, columns, from, joins, where_clause, group_by, having, order_by, limit, offset) ==
    [s |-> "Select", distinct |-> distinct, columns |-> columns, from |-> from,
     joins |-> joins, where_clause |-> where_clause, group_by |-> group_by,
     having |-> having, order_by |-> order_by, limit |-> limit, offset |-> offset]

SetOpStatement(op, all, left, right) ==
    [s |-> "SetOp", op |-> op, all |-> all, left |-> left, right |-> right]

InsertStatement(table, columns, values) ==
    [s |-> "Insert", table |-> table, columns |-> columns, values |-> values]

InsertValues_Values(all_rows) == [kind |-> "Values", all_rows |-> all_rows]
InsertValues_Select(select_stmt) == [kind |-> "Select", select_stmt |-> select_stmt]

Assignment(column, value) == [column |-> column, value |-> value]

UpdateStatement(table, assignments, where_clause) ==
    [s |-> "Update", table |-> table, assignments |-> assignments,
     where_clause |-> where_clause]

DeleteStatement(table, where_clause) ==
    [s |-> "Delete", table |-> table, where_clause |-> where_clause]

CreateTableStatement(name, if_not_exists, columns) ==
    [s |-> "CreateTable", name |-> name, if_not_exists |-> if_not_exists,
     columns |-> columns]

DropTableStatement(name, if_exists) ==
    [s |-> "DropTable", name |-> name, if_exists |-> if_exists]

Cte(name, query) == [name |-> name, query |-> query]

WithStatement(ctes, body) == [s |-> "With", ctes |-> ctes, body |-> body]

(* ------------------------------------------------------------------ *)
(* sql/executor.rs: results and iteration helpers                     *)
(* ------------------------------------------------------------------ *)

QueryResult(columns, rows, affected_rows, message) ==
    [columns |-> columns, rows |-> rows, affected_rows |-> affected_rows,
     message |-> message]

QueryResult_empty == QueryResult(<< >>, << >>, 0, None)
QueryResult_with_message(msg) == QueryResult(<< >>, << >>, 0, Some(msg))
QueryResult_affected(n) == QueryResult(<< >>, << >>, n, None)

into_query_result(rs) ==
    QueryResult([i \in 1..Len(rs.cols) |-> rs.cols[i].name], rs.rows, 0, None)

empty_single_row == RowSet(<< >>, << << >> >>)

(* iter().map(f).collect::<Result<Vec<_>>>(), and a loop whose body ends in `?`: *)
(* the first Err in iteration order, else the vector of the Ok payloads.         *)
collect(results) ==
    IF \E i \in 1..Len(results) : ~results[i].ok
    THEN results[first_index({i \in 1..Len(results) : ~results[i].ok})]
    ELSE Ok([i \in 1..Len(results) |-> results[i].val])

(* The members of a finite set of indices, ascending: the order a filtering loop *)
(* over 0..n pushes them in.                                                     *)
ascending(S) ==
    [p \in 1..Cardinality(S) |->
        CHOOSE i \in S : Cardinality({j \in S : j < i}) = p - 1]

RECURSIVE concat_all(_)
concat_all(ss) ==
    IF Len(ss) = 0 THEN << >> ELSE Head(ss) \o concat_all(Tail(ss))

(* [T]::sort_by: the stable sort of s under a comparator, given as the table  *)
(* ord[j][i] of its results on s[j] and s[i]; it places an element after every *)
(* element that compares Less than it and after every earlier element that     *)
(* compares Equal to it.                                                       *)
sort_by(s, ord) ==
    LET n == Len(s)
        before(j, i) == ord[j][i] = "Less" \/ (ord[j][i] = "Equal" /\ j < i)
        pos(i) == Cardinality({j \in 1..n : before(j, i)}) + 1
    IN  [p \in 1..n |-> s[CHOOSE i \in 1..n : pos(i) = p]]

binop_display(op) ==
    CASE op = "Add" -> "+" [] op = "Sub" -> "-" [] op = "Mul" -> "*" [] OTHER -> "op"

RECURSIVE expr_display_name(_)
expr_display_name(expr) ==
    CASE expr.e = "Column" -> expr.name
      [] expr.e = "Function" -> to_lowercase(expr.name)
      [] expr.e = "Literal" ->
            (CASE expr.v.tag = "Int64" -> ToString(expr.v.i)
               [] expr.v.tag = "Float64" -> ToString(expr.v.i)
               [] expr.v.tag = "Utf8" -> expr.v.s
               [] expr.v.tag = "Boolean" -> (IF expr.v.i = 1 THEN "true" ELSE "false")
               [] OTHER -> "NULL")
      [] expr.e = "BinaryOp" ->
            expr_display_name(expr.left) \o binop_display(expr.op)
                \o expr_display_name(expr.right)
      [] OTHER -> "expr"

AggregateNames == {"COUNT", "SUM", "AVG", "MIN", "MAX", "STRING_AGG", "GROUP_CONCAT",
                   "LISTAGG", "ARRAY_AGG", "STDDEV", "STDEV", "STDDEV_SAMP",
                   "STDDEV_POP", "VARIANCE", "VAR_SAMP", "VAR_POP"}

RECURSIVE expr_has_aggregate(_)
expr_has_aggregate(expr) ==
    CASE expr.e = "Function" ->
            ~is_some(expr.over) /\ to_uppercase(expr.name) \in AggregateNames
      [] expr.e = "BinaryOp" ->
            expr_has_aggregate(expr.left) \/ expr_has_aggregate(expr.right)
      [] OTHER -> FALSE

select_items_have_aggregate(items) ==
    \E i \in 1..Len(items) :
        items[i].item = "Expr" /\ expr_has_aggregate(items[i].expr)

RECURSIVE expr_has_window(_)
expr_has_window(expr) ==
    CASE expr.e = "Function" -> is_some(expr.over)
      [] expr.e = "BinaryOp" -> expr_has_window(expr.left) \/ expr_has_window(expr.right)
      [] OTHER -> FALSE

tag_rowset(rs, alias) ==
    RowSet([i \in 1..Len(rs.cols) |-> Col(Some(alias), rs.cols[i].name)], rs.rows)

(* zip(s, row).all(|(a, b)| format!("{:?}", a) == format!("{:?}", b)) *)
debug_prefix_equal(seen_row, row) ==
    \A i \in 1..Min2(Len(seen_row), Len(row)) : DebugFmt(seen_row[i]) = DebugFmt(row[i])

RECURSIVE retain_unseen(_, _, _)
retain_unseen(rows, i, seen) ==
    IF i > Len(rows) THEN seen
    ELSE IF \E k \in 1..Len(seen) : debug_prefix_equal(seen[k], rows[i])
         THEN retain_unseen(rows, i + 1, seen)
         ELSE retain_unseen(rows, i + 1, Append(seen, rows[i]))

dedup_rowset(rs) == RowSet(rs.cols, retain_unseen(rs.rows, 1, << >>))

(* ------------------------------------------------------------------ *)
(* sql/executor.rs: WHERE, projection, grouping and aggregation       *)
(* ------------------------------------------------------------------ *)

(* The loop shared by apply_where and apply_having: keep the rows on which the *)
(* expression is truthy, fail on the first row on which it fails.              *)
filter_rows(rs, expr) ==
    LET kept(keep) == Ok(RowSet(rs.cols, [p \in 1..Len(keep) |-> rs.rows[keep[p]]]))
        filter(vals) ==
            IF ~vals.ok THEN vals
            ELSE kept(ascending({i \in 1..Len(rs.rows) : is_truthy(vals.val[i])}))
    IN  filter(collect([i \in 1..Len(rs.rows) |-> eval_expr(expr, rs.rows[i], rs.cols)]))

apply_where(rs, where_clause) ==
    IF ~is_some(where_clause) THEN Ok(rs) ELSE filter_rows(rs, unwrap(where_clause))

apply_having(rs, having) == apply_where(rs, having)

(* Column indices of rs that a `tname.*` item selects *)
table_wildcard_cols(rs, tname) ==
    ascending({ci \in 1..Len(rs.cols) :
        is_some(rs.cols[ci].table) /\ eq_ignore_ascii_case(unwrap(rs.cols[ci].table), tname)})

item_name(item) ==
    IF is_some(item.alias) THEN unwrap(item.alias) ELSE expr_display_name(item.expr)

project_select(rs, items, distinct) ==
    LET picked(seq, sel) == [p \in 1..Len(sel) |-> seq[sel[p]]]
        item_cols(item) ==
            CASE item.item = "Wildcard" -> rs.cols
              [] item.item = "TableWildcard" ->
                    picked(rs.cols, table_wildcard_cols(rs, item.tname))
              [] OTHER -> << Col(None, item_name(item)) >>
        single(v) == IF v.ok THEN Ok(<< v.val >>) ELSE v
        item_vals(item, row) ==
            CASE item.item = "Wildcard" -> Ok(row)
              [] item.item = "TableWildcard" ->
                    Ok(picked(row, table_wildcard_cols(rs, item.tname)))
              [] OTHER -> single(eval_expr(item.expr, row, rs.cols))
        flat(parts) == IF parts.ok THEN Ok(concat_all(parts.val)) ELSE parts
        out_row(row) == flat(collect([k \in 1..Len(items) |-> item_vals(items[k], row)]))
        output(proper) == IF distinct THEN Ok(dedup_rowset(proper)) ELSE Ok(proper)
        project(result_rows) ==
            IF ~result_rows.ok THEN result_rows
            ELSE output(RowSet(concat_all([k \in 1..Len(items) |-> item_cols(items[k])]),
                               result_rows.val))
    IN  project(collect([i \in 1..Len(rs.rows) |-> out_row(rs.rows[i])]))

(* A MIN / MAX fold that does not skip the NULL inputs *)
RECURSIVE fold_best_keeping_nulls(_, _, _, _)
fold_best_keeping_nulls(vals, i, best, want) ==
    IF i > Len(vals) THEN best
    ELSE IF ~is_some(best) THEN fold_best_keeping_nulls(vals, i + 1, Some(vals[i]), want)
    ELSE IF scalar_cmp(vals[i], unwrap(best)) = want
         THEN fold_best_keeping_nulls(vals, i + 1, Some(vals[i]), want)
         ELSE fold_best_keeping_nulls(vals, i + 1, best, want)

(* best = Some(match best { None => v, Some(cur) => if cmp(v, cur) == want { v } else { cur } }) *)
RECURSIVE fold_best(_, _, _, _)
fold_best(vals, i, best, want) ==
    IF i > Len(vals) THEN best
    ELSE IF is_null(vals[i]) THEN fold_best(vals, i + 1, best, want)
    ELSE IF ~is_some(best) THEN fold_best(vals, i + 1, Some(vals[i]), want)
    ELSE IF scalar_cmp(vals[i], unwrap(best)) = want
         THEN fold_best(vals, i + 1, Some(vals[i]), want)
         ELSE fold_best(vals, i + 1, best, want)

RECURSIVE sum_of(_, _)
sum_of(vals, tag) ==
    IF Len(vals) = 0 THEN 0
    ELSE (IF Head(vals).tag = tag THEN Head(vals).i ELSE 0) + sum_of(Tail(vals), tag)

(* total / n as f64, on the whole-number f64 values of this model: the operands *)
(* the specifications produce divide without remainder                         *)
f64_div(total, n) == total \div n

(* Aggregate evaluation over the rows of one group, for the aggregates COUNT, SUM, *)
(* AVG, MIN and MAX; any other function, and any non-aggregate expression, is      *)
(* evaluated against the first row of the group.                                  *)
RECURSIVE eval_expr_agg(_, _, _, _)
eval_expr_agg(expr, all_rows, group_indices, cols) ==
    LET or_null(best) == IF is_some(best) THEN Ok(unwrap(best)) ELSE Ok(Null)
        total(vals) ==
            IF ~\E g \in 1..Len(vals) : vals[g].tag \in {"Int64", "Float64"} THEN Ok(Null)
            ELSE IF \E g \in 1..Len(vals) : vals[g].tag = "Float64"
            THEN Ok(Float64(sum_of(vals, "Float64") + sum_of(vals, "Int64")))
            ELSE Ok(Int64(sum_of(vals, "Int64")))
        numeric(vals) == {g \in 1..Len(vals) : vals[g].tag \in {"Int64", "Float64"}}
        mean(vals) ==
            IF numeric(vals) = {} THEN Ok(Null)
            ELSE Ok(Float64(f64_div(sum_of(vals, "Float64") + sum_of(vals, "Int64"),
                                    Cardinality(numeric(vals)))))
        over_args(agg_name, arg_values) ==
            IF ~arg_values.ok THEN arg_values
            ELSE CASE agg_name = "COUNT" ->
                        Ok(Int64(Cardinality({g \in 1..Len(group_indices) :
                                                 ~is_null(arg_values.val[g])})))
                   [] agg_name = "SUM" -> total(arg_values.val)
                   [] agg_name = "AVG" -> mean(arg_values.val)
                   [] OTHER ->
                        or_null(fold_best(arg_values.val, 1, None,
                                          IF agg_name = "MIN" THEN "Less" ELSE "Greater"))
        both(l, r) ==
            IF ~l.ok THEN l ELSE IF ~r.ok THEN r ELSE eval_binary_op(expr.op, l.val, r.val)
        is_agg == /\ expr.e = "Function"
                  /\ ~is_some(expr.over)
                  /\ to_uppercase(expr.name) \in {"COUNT", "SUM", "AVG", "MIN", "MAX"}
        count_star == /\ to_uppercase(expr.name) = "COUNT"
                      /\ Len(expr.args) = 1
                      /\ expr.args[1].e = "Wildcard"
    IN  IF is_agg /\ count_star THEN Ok(Int64(Len(group_indices)))
        ELSE IF is_agg
        THEN over_args(to_uppercase(expr.name),
                       collect([g \in 1..Len(group_indices) |->
                                   eval_expr(expr.args[1], all_rows[group_indices[g]], cols)]))
        ELSE IF expr.e = "BinaryOp"
        THEN both(eval_expr_agg(expr.left, all_rows, group_indices, cols),
                  eval_expr_agg(expr.right, all_rows, group_indices, cols))
        ELSE IF Len(group_indices) > 0
        THEN eval_expr(expr, all_rows[group_indices[1]], cols)
        ELSE Ok(Null)

eval_agg_row(out_exprs, all_rows, group_indices, cols) ==
    collect([k \in 1..Len(out_exprs) |->
                eval_expr_agg(out_exprs[k], all_rows, group_indices, cols)])

(* eval_expr(expr, row, cols).ok().map(scalar_to_key).unwrap_or_default() *)
key_or_default(expr, row, cols) ==
    LET key(v) == IF v.ok THEN scalar_to_key(v.val) ELSE ""
    IN  key(eval_expr(expr, row, cols))

exec_group_by(rs, stmt) ==
    LET item_cols(item) ==
            CASE item.item = "Wildcard" -> rs.cols
              [] item.item = "Expr" -> << Col(None, item_name(item)) >>
              [] OTHER -> << >>
        item_exprs(item) ==
            CASE item.item = "Wildcard" ->
                    [c \in 1..Len(rs.cols) |-> Column(rs.cols[c].table, rs.cols[c].name)]
              [] item.item = "Expr" -> << item.expr >>
              [] OTHER -> << >>
        n == Len(rs.rows)
        grouped == Len(stmt.group_by) > 0
        (* the rows of each group, groups in first-appearance order of their key; *)
        (* without GROUP BY the entire table is one group                         *)
        group_rows(keys) ==
            IF ~grouped THEN << [i \in 1..n |-> i] >>
            ELSE LET group_order == ascending({i \in 1..n : \A j \in 1..(i - 1) :
                                                              keys[j] # keys[i]})
                 IN  [p \in 1..Len(group_order) |->
                         ascending({j \in 1..n : keys[j] = keys[group_order[p]]})]
        pushed(passes, result_row) ==
            IF ~passes.ok THEN passes
            ELSE IF ~is_truthy(passes.val) THEN Ok(<< >>)
            ELSE IF result_row.ok THEN Ok(<< result_row.val >>)
            ELSE result_row
        (* HAVING on the group, where there is a GROUP BY, then the output row *)
        group_result(out_exprs, indices) ==
            pushed(IF grouped /\ is_some(stmt.having)
                   THEN eval_expr_agg(unwrap(stmt.having), rs.rows, indices, rs.cols)
                   ELSE Ok(Boolean(TRUE)),
                   eval_agg_row(out_exprs, rs.rows, indices, rs.cols))
        result(out_cols, groups) ==
            IF groups.ok THEN Ok(RowSet(out_cols, concat_all(groups.val))) ELSE groups
        each_group(out_exprs, groups) ==
            collect([p \in 1..Len(groups) |-> group_result(out_exprs, groups[p])])
    IN  result(concat_all([k \in 1..Len(stmt.columns) |-> item_cols(stmt.columns[k])]),
               each_group(concat_all([k \in 1..Len(stmt.columns) |->
                                         item_exprs(stmt.columns[k])]),
                          group_rows([i \in 1..n |->
                                         [g \in 1..Len(stmt.group_by) |->
                                             key_or_default(stmt.group_by[g], rs.rows[i],
                                                            rs.cols)]])))

(* ------------------------------------------------------------------ *)
(* sql/executor.rs: window functions, ORDER BY, LIMIT / OFFSET        *)
(* ------------------------------------------------------------------ *)

(* eval_expr(e, row, cols).unwrap_or(ScalarValue::Null) *)
value_or_null(expr, row, cols) ==
    LET value(v) == IF v.ok THEN v.val ELSE Null
    IN  value(eval_expr(expr, row, cols))

(* The comparator of both sort_by calls that order by a key list: the first key *)
(* that does not compare Equal decides, reversed for a descending item.         *)
RECURSIVE order_keys_cmp(_, _, _, _)
order_keys_cmp(order_by, ka, kb, i) ==
    IF i > Len(order_by) THEN "Equal"
    ELSE LET decide(ord) ==
                 IF ord # "Equal"
                 THEN (IF order_by[i].ascending THEN ord ELSE reverse(ord))
                 ELSE order_keys_cmp(order_by, ka, kb, i + 1)
         IN  decide(scalar_cmp(get_or(ka, i, Null), get_or(kb, i, Null)))

(* Window functions ROW_NUMBER and RANK and the windowed aggregates, computed *)
(* over the row set handed in; any other name yields NULL on every row.      *)
compute_window_func(func_name, args, spec, rs) ==
    LET n == Len(rs.rows)
        fname == to_uppercase(func_name)
        part_indices(partition_keys, i) ==
            ascending({j \in 1..n : partition_keys[j] = partition_keys[i]})
        sorted(order_keys, part) ==
            sort_by(part, [j \in 1..Len(part) |->
                              [k \in 1..Len(part) |->
                                  order_keys_cmp(spec.order_by, order_keys[part[j]],
                                                 order_keys[part[k]], 1)]])
        cur_key(order_keys) ==
            [idx \in 1..n |->
                [k \in 1..Len(spec.order_by) |-> scalar_to_key(order_keys[idx][k])]]
        (* rank = i + 1 at the last place, up to this one, whose key differs from *)
        (* the key of the place before it                                         *)
        rank_at(keys, srt, q) ==
            CHOOSE r \in 1..q :
                /\ (r = 1 \/ keys[srt[r]] # keys[srt[r - 1]])
                /\ \A x \in (r + 1)..q : keys[srt[x]] = keys[srt[x - 1]]
        (* the value at the 1-based place of the row in its sorted partition *)
        at_place(keys, srt, place) ==
            IF fname = "ROW_NUMBER" THEN Ok(Int64(place))
            ELSE Ok(Int64(rank_at(keys, srt, place)))
        placed(keys, srt, i) == at_place(keys, srt, CHOOSE q \in 1..Len(srt) : srt[q] = i)
        in_partition(order_keys, part, i) ==
            CASE fname \in {"ROW_NUMBER", "RANK"} ->
                    placed(cur_key(order_keys), sorted(order_keys, part), i)
              [] fname \in {"SUM", "AVG", "COUNT", "MIN", "MAX"} ->
                    eval_expr_agg(Function(func_name, args, None), rs.rows, part, rs.cols)
              [] OTHER -> Ok(Null)
        cells(partition_keys, order_keys) ==
            collect([i \in 1..n |->
                        in_partition(order_keys, part_indices(partition_keys, i), i)])
    IN  IF n = 0 THEN Ok(<< >>)
        ELSE cells([i \in 1..n |->
                       [k \in 1..Len(spec.partition_by) |->
                           key_or_default(spec.partition_by[k], rs.rows[i], rs.cols)]],
                   [i \in 1..n |->
                       [k \in 1..Len(spec.order_by) |->
                           value_or_null(spec.order_by[k].expr, rs.rows[i], rs.cols)]])

RECURSIVE compute_window_col(_, _)
compute_window_col(rs, expr) ==
    LET both(left_vals, right_vals) ==
            IF ~left_vals.ok THEN left_vals
            ELSE IF ~right_vals.ok THEN right_vals
            ELSE collect([i \in 1..Min2(Len(left_vals.val), Len(right_vals.val)) |->
                             eval_binary_op(expr.op, left_vals.val[i], right_vals.val[i])])
    IN  CASE expr.e = "Function" /\ is_some(expr.over) ->
                compute_window_func(expr.name, expr.args, unwrap(expr.over), rs)
          [] expr.e = "BinaryOp" ->
                both(compute_window_col(rs, expr.left), compute_window_col(rs, expr.right))
          [] OTHER -> collect([i \in 1..Len(rs.rows) |-> eval_expr(expr, rs.rows[i], rs.cols)])

(* One pass of the loop over window_col_indices: overwrite column col_idx *)
overwrite_col(rs, col_idx, values) ==
    RowSet(rs.cols,
           [i \in 1..Len(rs.rows) |->
               IF i <= Len(values) /\ col_idx <= Len(rs.rows[i])
               THEN [rs.rows[i] EXCEPT ![col_idx] = values[i]]
               ELSE rs.rows[i]])

RECURSIVE apply_window_cols(_, _, _)
apply_window_cols(rs, window_col_indices, w) ==
    IF w > Len(window_col_indices) THEN Ok(rs)
    ELSE LET overwrite(values) ==
                 IF ~values.ok THEN values
                 ELSE apply_window_cols(
                          overwrite_col(rs, window_col_indices[w].col_idx, values.val),
                          window_col_indices, w + 1)
         IN  overwrite(compute_window_col(rs, window_col_indices[w].expr))

apply_window_funcs(rs, items) ==
    LET expr_items == ascending({k \in 1..Len(items) : items[k].item = "Expr"})
        (* col_idx advances on Expr items only *)
        windows == ascending({c \in 1..Len(expr_items) :
                                 expr_has_window(items[expr_items[c]].expr)})
        window_col_indices ==
            [w \in 1..Len(windows) |->
                [col_idx |-> windows[w], expr |-> items[expr_items[windows[w]]].expr]]
    IN  IF Len(window_col_indices) = 0 THEN Ok(rs)
        ELSE apply_window_cols(rs, window_col_indices, 1)

RECURSIVE order_by_cmp(_, _, _, _, _)
order_by_cmp(items, cols, a, b, i) ==
    IF i > Len(items) THEN "Equal"
    ELSE LET nf == items[i].nulls_first
             base(va, vb) ==
                 CASE is_some(nf) /\ is_null(va) /\ is_null(vb) -> "Equal"
                   [] is_some(nf) /\ is_null(va) /\ ~is_null(vb) ->
                        (IF unwrap(nf) THEN "Less" ELSE "Greater")
                   [] is_some(nf) /\ ~is_null(va) /\ is_null(vb) ->
                        (IF unwrap(nf) THEN "Greater" ELSE "Less")
                   [] OTHER -> scalar_cmp(va, vb)
             directed(ord) == IF items[i].ascending THEN ord ELSE reverse(ord)
             decide(ord) ==
                 IF ord # "Equal" THEN ord ELSE order_by_cmp(items, cols, a, b, i + 1)
         IN  decide(directed(base(value_or_null(items[i].expr, a, cols),
                                  value_or_null(items[i].expr, b, cols))))

apply_order_by(rs, items) ==
    IF Len(items) = 0 THEN Ok(rs)
    ELSE Ok(RowSet(rs.cols,
                   sort_by(rs.rows,
                           [j \in 1..Len(rs.rows) |->
                               [i \in 1..Len(rs.rows) |->
                                   order_by_cmp(items, rs.cols, rs.rows[j], rs.rows[i], 1)]])))

(* rows[start..end].to_vec() with 0-based start and exclusive end *)
slice(rows, start, end) == SubSeq(rows, start + 1, end)

(* `n as usize`, for the non-negative values that LIMIT and OFFSET take here *)
as_usize(n) == n

(* A LIMIT whose end is counted from the first row instead of from the offset *)
apply_limit_offset_end_from_zero(rs, limit, offset) ==
    LET cut(offset_val, limit_val) ==
            LET start == Min2(offset_val, Len(rs.rows))
                end == IF is_some(limit_val)
                       THEN Min2(unwrap(limit_val), Len(rs.rows))
                       ELSE Len(rs.rows)
            IN  IF offset_val > 0 \/ is_some(limit_val)
                THEN Ok(RowSet(rs.cols, slice(rs.rows, start, end)))
                ELSE Ok(rs)
        evaluated(off, lim) ==
            IF ~off.ok THEN off
            ELSE IF ~lim.ok THEN lim
            ELSE cut(IF off.val.tag = "Int64" THEN as_usize(off.val.i) ELSE 0,
                     IF lim.val.tag = "Int64" THEN Some(as_usize(lim.val.i)) ELSE None)
    IN  evaluated(IF is_some(offset) THEN eval_expr(unwrap(offset), << >>, << >>)
                  ELSE Ok(Null),
                  IF is_some(limit) THEN eval_expr(unwrap(limit), << >>, << >>)
                  ELSE Ok(Null))

apply_limit_offset(rs, limit, offset) ==
    LET cut(offset_val, limit_val) ==
            LET start == Min2(offset_val, Len(rs.rows))
                end == IF is_some(limit_val)
                       THEN Min2(start + unwrap(limit_val), Len(rs.rows))
                       ELSE Len(rs.rows)
            IN  IF offset_val > 0 \/ is_some(limit_val)
                THEN Ok(RowSet(rs.cols, slice(rs.rows, start, end)))
                ELSE Ok(rs)
        evaluated(off, lim) ==
            IF ~off.ok THEN off
            ELSE IF ~lim.ok THEN lim
            ELSE cut(IF off.val.tag = "Int64" THEN as_usize(off.val.i) ELSE 0,
                     IF lim.val.tag = "Int64" THEN Some(as_usize(lim.val.i)) ELSE None)
    IN  evaluated(IF is_some(offset) THEN eval_expr(unwrap(offset), << >>, << >>)
                  ELSE Ok(Null),
                  IF is_some(limit) THEN eval_expr(unwrap(limit), << >>, << >>)
                  ELSE Ok(Null))

(* ------------------------------------------------------------------ *)
(* sql/executor.rs: joins, set operations and the SELECT pipeline.    *)
(* The engine is `&mut self`, so every operator that can reach a      *)
(* statement takes the catalog and returns it with its result.        *)
(* ------------------------------------------------------------------ *)

Ret(cat, res) == [cat |-> cat, res |-> res]

(* ExecCtx.ctes as the list of (uppercased name, row set) insertions; a lookup *)
(* finds the latest insertion under the name.                                 *)
ExecCtx_new == << >>

ctes_insert(ctx, name, rs) == Append(ctx, [name |-> name, rs |-> rs])

ctes_get(ctx, name) ==
    LET hits == {i \in 1..Len(ctx) : ctx[i].name = name}
    IN  IF hits = {} THEN None
        ELSE Some(ctx[CHOOSE i \in hits : \A j \in hits : j <= i].rs)

eval_join_condition(cond, row, cols) ==
    LET truth(v) == IF v.ok THEN Ok(is_truthy(v.val)) ELSE v
        same(matches) ==
            Len(matches) >= 2 =>
                scalar_eq(get_or(row, matches[1], Null), get_or(row, matches[2], Null))
    IN  CASE cond.cond = "None" -> Ok(TRUE)
          [] cond.cond = "On" -> truth(eval_expr(cond.expr, row, cols))
          [] OTHER ->
                Ok(\A c \in 1..Len(cond.col_names) :
                     same(ascending({i \in 1..Len(cols) :
                             eq_ignore_ascii_case(cols[i].name, cond.col_names[c])})))

nulls(n) == [i \in 1..n |-> Null]

(* A join that null-pads every right row of a RIGHT or FULL join, matched or not *)
join_rowsets_pad_every_right(left, right, join) ==
    LET combined_cols == left.cols \o right.cols
        left_len == Len(left.cols)
        right_len == Len(right.cols)
        nl == Len(left.rows)
        nr == Len(right.rows)
        is_left == join.join_type \in {"Left", "Full"}
        is_right == join.join_type \in {"Right", "Full"}
        pair(q) == left.rows[((q - 1) \div nr) + 1] \o right.rows[((q - 1) % nr) + 1]
        matched(li, found) ==
            IF Len(found) > 0
            THEN [p \in 1..Len(found) |-> left.rows[li] \o right.rows[found[p]]]
            ELSE IF is_left THEN << left.rows[li] \o nulls(right_len) >>
            ELSE << >>
        left_part(hit, li) == matched(li, ascending({ri \in 1..nr : hit[(li - 1) * nr + ri]}))
        right_part(hit) ==
            IF is_right THEN [ri \in 1..nr |-> nulls(left_len) \o right.rows[ri]]
            ELSE << >>
        joined(visited) ==
            IF ~visited.ok THEN visited
            ELSE Ok(RowSet(combined_cols,
                           concat_all([li \in 1..nl |-> left_part(visited.val, li)])
                               \o right_part(visited.val)))
    IN  IF join.join_type = "Cross"
        THEN Ok(RowSet(combined_cols, [q \in 1..(nl * nr) |-> pair(q)]))
        ELSE joined(collect([q \in 1..(nl * nr) |->
                                eval_join_condition(join.condition, pair(q), combined_cols)]))

(* apply_join once the right side is resolved.  visited is the condition on *)
(* every pair of rows, in the order the nested loops visit them.            *)
join_rowsets(left, right, join) ==
    LET combined_cols == left.cols \o right.cols
        left_len == Len(left.cols)
        right_len == Len(right.cols)
        nl == Len(left.rows)
        nr == Len(right.rows)
        is_left == join.join_type \in {"Left", "Full"}
        is_right == join.join_type \in {"Right", "Full"}
        pair(q) == left.rows[((q - 1) \div nr) + 1] \o right.rows[((q - 1) % nr) + 1]
        matched(li, found) ==
            IF Len(found) > 0
            THEN [p \in 1..Len(found) |-> left.rows[li] \o right.rows[found[p]]]
            ELSE IF is_left THEN << left.rows[li] \o nulls(right_len) >>
            ELSE << >>
        left_part(hit, li) == matched(li, ascending({ri \in 1..nr : hit[(li - 1) * nr + ri]}))
        unmatched(right_unmatched) ==
            [p \in 1..Len(right_unmatched) |->
                nulls(left_len) \o right.rows[right_unmatched[p]]]
        right_part(hit) ==
            IF is_right
            THEN unmatched(ascending({ri \in 1..nr :
                                         \A li \in 1..nl : ~hit[(li - 1) * nr + ri]}))
            ELSE << >>
        joined(visited) ==
            IF ~visited.ok THEN visited
            ELSE Ok(RowSet(combined_cols,
                           concat_all([li \in 1..nl |-> left_part(visited.val, li)])
                               \o right_part(visited.val)))
    IN  IF join.join_type = "Cross"
        THEN Ok(RowSet(combined_cols, [q \in 1..(nl * nr) |-> pair(q)]))
        ELSE joined(collect([q \in 1..(nl * nr) |->
                                eval_join_condition(join.condition, pair(q), combined_cols)]))

(* UNION / INTERSECT / EXCEPT once both sides are evaluated *)
contains(rows, row) == \E i \in 1..Len(rows) : rows[i] = row

RECURSIVE push_absent(_, _, _)
push_absent(acc, rows, i) ==
    IF i > Len(rows) THEN acc
    ELSE IF contains(acc, rows[i]) THEN push_absent(acc, rows, i + 1)
    ELSE push_absent(Append(acc, rows[i]), rows, i + 1)

set_op_rows(stmt, left, right) ==
    LET chosen(from) == RowSet(left.cols, [p \in 1..Len(from) |-> left.rows[from[p]]])
        (* the rows of the left side that are, or are not, among the right side's *)
        left_rows(in_right) ==
            chosen(ascending({i \in 1..Len(left.rows) :
                                 contains(right.rows, left.rows[i]) = in_right}))
        result(rs, dedup) == IF dedup THEN dedup_rowset(rs) ELSE rs
    IN  CASE stmt.op = "Union" ->
                result(RowSet(left.cols,
                              IF stmt.all THEN left.rows \o right.rows
                              ELSE push_absent(left.rows, right.rows, 1)),
                       ~stmt.all)
          [] stmt.op = "Intersect" -> result(left_rows(TRUE), ~stmt.all)
          [] OTHER -> result(left_rows(FALSE), FALSE)

(* Steps 3 to 7 of exec_select, on the joined row set *)
select_tail(joined, stmt) ==
    LET limited(sorted) ==
            IF ~sorted.ok THEN sorted
            ELSE apply_limit_offset(sorted.val, stmt.limit, stmt.offset)
        ordered(windowed) ==
            limited(IF ~windowed.ok THEN windowed
                    ELSE apply_order_by(windowed.val, stmt.order_by))
        windowed(projected) ==
            ordered(IF ~projected.ok THEN projected
                    ELSE apply_window_funcs(projected.val, stmt.columns))
        having(rs) == IF ~rs.ok THEN rs ELSE apply_having(rs.val, stmt.having)
        projected(filtered) ==
            windowed(IF ~filtered.ok THEN filtered
                     ELSE IF Len(stmt.group_by) > 0
                             \/ select_items_have_aggregate(stmt.columns)
                     THEN exec_group_by(filtered.val, stmt)
                     ELSE having(project_select(filtered.val, stmt.columns, stmt.distinct)))
    IN  projected(apply_where(joined, stmt.where_clause))

RECURSIVE exec_stmt(_, _)
RECURSIVE exec_stmt_ctx(_, _, _)
RECURSIVE exec_select(_, _, _)
RECURSIVE exec_set_op(_, _, _)
RECURSIVE resolve_table_ref(_, _, _)
RECURSIVE apply_joins(_, _, _, _, _)
RECURSIVE define_ctes(_, _, _, _)

resolve_table_ref(cat, ctx, table_ref) ==
    LET effective_alias == IF is_some(table_ref.alias) THEN unwrap(table_ref.alias)
                           ELSE table_ref.name
        scanned(st, rows) ==
            IF rows.ok
            THEN Ret(cat, Ok(RowSet([c \in 1..Len(st.schema) |->
                                        Col(Some(effective_alias), st.schema[c].name)],
                                    rows.val)))
            ELSE Ret(cat, rows)
        scan(st) == scanned(st, collect([r \in 1..st.row_count |-> get_row(st, r)]))
        named(cte, store) ==
            IF is_some(cte) THEN Ret(cat, Ok(tag_rowset(unwrap(cte), effective_alias)))
            ELSE IF ~is_some(store) THEN Ret(cat, Err("SqlError"))
            ELSE scan(unwrap(store))
        derived(sub) ==
            IF sub.res.ok THEN Ret(sub.cat, Ok(tag_rowset(sub.res.val, table_ref.alias)))
            ELSE sub
    IN  IF table_ref.ref = "Table"
        THEN named(ctes_get(ctx, to_uppercase(table_ref.name)),
                   get_table(cat, to_uppercase(table_ref.name)))
        ELSE derived(exec_stmt_ctx(cat, ctx, table_ref.query))

apply_join(cat, ctx, left, join) ==
    LET joined(right) ==
            IF ~right.res.ok THEN right
            ELSE Ret(right.cat, join_rowsets(left, right.res.val, join))
    IN  joined(resolve_table_ref(cat, ctx, join.table))

apply_joins(cat, ctx, base, joins, i) ==
    IF i > Len(joins) THEN Ret(cat, Ok(base))
    ELSE LET next(step) ==
                 IF ~step.res.ok THEN step
                 ELSE apply_joins(step.cat, ctx, step.res.val, joins, i + 1)
         IN  next(apply_join(cat, ctx, base, joins[i]))

(* Steps 1 and 2 of exec_select: the FROM source with its joins applied *)
select_source(cat, ctx, stmt) ==
    LET joins_on(base) ==
            IF ~base.res.ok THEN base
            ELSE apply_joins(base.cat, ctx, base.res.val, stmt.joins, 1)
    IN  joins_on(IF is_some(stmt.from) THEN resolve_table_ref(cat, ctx, unwrap(stmt.from))
                 ELSE Ret(cat, Ok(empty_single_row)))

exec_select(cat, ctx, stmt) ==
    LET tail(joined) ==
            IF ~joined.res.ok THEN joined
            ELSE Ret(joined.cat, select_tail(joined.res.val, stmt))
    IN  tail(select_source(cat, ctx, stmt))

exec_set_op(cat, ctx, stmt) ==
    LET combined(left, right) ==
            IF ~right.res.ok THEN right
            ELSE Ret(right.cat, Ok(set_op_rows(stmt, left.res.val, right.res.val)))
        then_right(left) ==
            IF ~left.res.ok THEN left
            ELSE combined(left, exec_stmt_ctx(left.cat, ctx, stmt.right))
    IN  then_right(exec_stmt_ctx(cat, ctx, stmt.left))

(* The loop over w.ctes: each query runs on the context the CTEs before it *)
(* left, and its rows are inserted under the uppercased name             *)
define_ctes(cat, new_ctx, ctes, i) ==
    IF i > Len(ctes) THEN Ret(cat, Ok(new_ctx))
    ELSE LET insert(rs) ==
                 IF ~rs.res.ok THEN rs
                 ELSE define_ctes(rs.cat,
                                  ctes_insert(new_ctx, to_uppercase(ctes[i].name), rs.res.val),
                                  ctes, i + 1)
         IN  insert(exec_stmt_ctx(cat, new_ctx, ctes[i].query))

exec_stmt_ctx(cat, ctx, stmt) ==
    LET body(defined) ==
            IF ~defined.res.ok THEN defined
            ELSE exec_stmt_ctx(defined.cat, defined.res.val, stmt.body)
        as_rowset(other) ==
            IF ~other.res.ok THEN other
            ELSE Ret(other.cat,
                     Ok(RowSet([c \in 1..Len(other.res.val.columns) |->
                                   Col(None, other.res.val.columns[c])],
                               other.res.val.rows)))
    IN  CASE stmt.s = "Select" -> exec_select(cat, ctx, stmt)
          [] stmt.s = "With" -> body(define_ctes(cat, ctx, stmt.ctes, 1))
          [] stmt.s = "SetOp" -> exec_set_op(cat, ctx, stmt)
          [] OTHER -> as_rowset(exec_stmt(cat, stmt))

(* ------------------------------------------------------------------ *)
(* sql/executor.rs: INSERT, UPDATE, DELETE, CREATE TABLE, DROP TABLE  *)
(* ------------------------------------------------------------------ *)

(* values[col_indices[i]] = v for each i, later positions overriding earlier ones *)
place_values(width, col_indices, vals) ==
    LET latest(src) == IF src = {} THEN Null
                       ELSE vals[CHOOSE i \in src : \A j \in src : j <= i]
    IN  [c \in 1..width |->
            latest({i \in 1..Min2(Len(vals), Len(col_indices)) : col_indices[i] = c})]

(* The loop over the rows of an INSERT: a row that fails ends the statement, *)
(* with the rows before it, and any column of it already pushed, stored.     *)
RECURSIVE insert_rows(_, _, _, _)
insert_rows(store, rows, i, affected) ==
    IF i > Len(rows) THEN [store |-> store, res |-> Ok(QueryResult_affected(affected))]
    ELSE IF ~rows[i].ok THEN [store |-> store, res |-> rows[i]]
    ELSE LET next(appended) ==
                 IF ~appended.res.ok THEN appended
                 ELSE insert_rows(appended.store, rows, i + 1, affected + 1)
         IN  next(append_row(store, rows[i].val))

exec_insert(cat, stmt) ==
    LET width == Len(unwrap(get_table(cat, stmt.table)).schema)
        index(idx) == IF is_some(idx) THEN Ok(unwrap(idx)) ELSE Err("ColumnNotFound")
        named(schema, columns) ==
            collect([c \in 1..Len(columns) |-> index(find_column_index(schema, columns[c]))])
        placed(col_indices, vals) ==
            IF vals.ok THEN Ok(place_values(width, col_indices, vals.val)) ELSE vals
        row_values(col_indices, row_exprs) ==
            placed(col_indices,
                   collect([e \in 1..Min2(Len(row_exprs), Len(col_indices)) |->
                               eval_expr(row_exprs[e], << >>, << >>)]))
        stored(c, done) == Ret(put_table(c, stmt.table, done.store), done.res)
        insert(c, rows) == stored(c, insert_rows(unwrap(get_table(c, stmt.table)), rows, 1, 0))
        from_select(col_indices, selected) ==
            IF ~selected.res.ok THEN selected
            ELSE insert(selected.cat,
                        [r \in 1..Len(selected.res.val.rows) |->
                            Ok(place_values(width, col_indices, selected.res.val.rows[r]))])
        with_columns(col_indices) ==
            IF ~col_indices.ok THEN Ret(cat, col_indices)
            ELSE IF stmt.values.kind = "Values"
            THEN insert(cat, [r \in 1..Len(stmt.values.all_rows) |->
                                 row_values(col_indices.val, stmt.values.all_rows[r])])
            ELSE from_select(col_indices.val,
                             exec_stmt_ctx(cat, ExecCtx_new, stmt.values.select_stmt))
    IN  IF ~table_exists(cat, stmt.table) THEN Ret(cat, Err("SqlError"))
        ELSE with_columns(IF is_some(stmt.columns)
                          THEN named(unwrap(get_table(cat, stmt.table)).schema,
                                     unwrap(stmt.columns))
                          ELSE Ok([c \in 1..width |-> c]))

(* An UPDATE that writes the first collected value and drops the others *)
apply_updates_once(store, to_update, i) ==
    IF i > Len(to_update) THEN [store |-> store, res |-> Ok(<< >>)]
    ELSE set_value(store, to_update[i].row_idx, to_update[i].col_idx, to_update[i].val)

RECURSIVE apply_updates(_, _, _)
apply_updates(store, to_update, i) ==
    IF i > Len(to_update) THEN [store |-> store, res |-> Ok(<< >>)]
    ELSE LET next(done) ==
                 IF ~done.res.ok THEN done ELSE apply_updates(done.store, to_update, i + 1)
         IN  next(set_value(store, to_update[i].row_idx, to_update[i].col_idx,
                            to_update[i].val))

schema_cols(schema) == [c \in 1..Len(schema) |-> Col(None, schema[c].name)]

(* WHERE on one row of an UPDATE or DELETE: no clause keeps every row *)
row_passes(where_clause, row, cols) ==
    IF is_some(where_clause) THEN eval_expr(unwrap(where_clause), row, cols)
    ELSE Ok(Boolean(TRUE))

exec_update(cat, stmt) ==
    LET table == unwrap(get_table(cat, stmt.table))
        assigned(row_idx, col_idx, val) ==
            IF ~is_some(col_idx) THEN Err("ColumnNotFound")
            ELSE IF ~val.ok THEN val
            ELSE Ok([row_idx |-> row_idx, col_idx |-> unwrap(col_idx), val |-> val.val])
        assignment(row_idx, row, a) ==
            assigned(row_idx,
                     find_column_index(table.schema, stmt.assignments[a].column),
                     eval_expr(stmt.assignments[a].value, row, schema_cols(table.schema)))
        matched(row_idx, row, v) ==
            IF ~v.ok THEN v
            ELSE IF ~is_truthy(v.val) THEN Ok(<< >>)
            ELSE collect([a \in 1..Len(stmt.assignments) |-> assignment(row_idx, row, a)])
        scanned(row_idx, row) ==
            IF ~row.ok THEN row
            ELSE matched(row_idx, row.val,
                         row_passes(stmt.where_clause, row.val, schema_cols(table.schema)))
        row_updates(row_idx) == scanned(row_idx, get_row(table, row_idx))
        updated(to_update, done) ==
            Ret(put_table(cat, stmt.table, done.store),
                IF done.res.ok THEN Ok(QueryResult_affected(Len(to_update))) ELSE done.res)
        update(to_update) == updated(to_update, apply_updates(table, to_update, 1))
        applied(collected) ==
            IF ~collected.ok THEN Ret(cat, collected)
            ELSE update(concat_all(collected.val))
    IN  IF ~table_exists(cat, stmt.table) THEN Ret(cat, Err("SqlError"))
        ELSE applied(collect([r \in 1..table.row_count |-> row_updates(r)]))

RECURSIVE rebuild(_, _, _)
rebuild(store, keep_rows, i) ==
    IF i > Len(keep_rows) THEN [store |-> store, res |-> Ok(<< >>)]
    ELSE LET next(appended) ==
                 IF ~appended.res.ok THEN appended
                 ELSE rebuild(appended.store, keep_rows, i + 1)
         IN  next(append_row(store, keep_rows[i]))

exec_delete(cat, stmt) ==
    LET table == unwrap(get_table(cat, stmt.table))
        marked(row, v) ==
            IF ~v.ok THEN v ELSE Ok([row |-> row, delete |-> is_truthy(v.val)])
        scanned(row) ==
            IF ~row.ok THEN row
            ELSE marked(row.val,
                        row_passes(stmt.where_clause, row.val, schema_cols(table.schema)))
        row_delete(row_idx) == scanned(get_row(table, row_idx))
        replaced(deleted, new_store) ==
            IF ~new_store.res.ok THEN Ret(cat, new_store.res)
            ELSE Ret(put_table(cat, stmt.table, new_store.store),
                     Ok(QueryResult_affected(deleted)))
        rebuilt(rows, kept) ==
            replaced(table.row_count - Len(kept),
                     rebuild(DataStore_new(table.schema),
                             [p \in 1..Len(kept) |-> rows[kept[p]].row], 1))
        deleted(scan) ==
            IF ~scan.ok THEN Ret(cat, scan)
            ELSE rebuilt(scan.val,
                         ascending({r \in 1..table.row_count : ~scan.val[r].delete}))
    IN  IF ~table_exists(cat, stmt.table) THEN Ret(cat, Err("SqlError"))
        ELSE deleted(collect([r \in 1..table.row_count |-> row_delete(r)]))

exec_create_table(cat, stmt) ==
    LET created(c) ==
            Ret(c, Ok(QueryResult_with_message("Table '" \o stmt.name \o "' created")))
        checked(made) == IF ~made.created THEN Ret(cat, Err("SqlError")) ELSE created(made.cat)
    IN  IF stmt.if_not_exists
        THEN created(create_table_if_not_exists(cat, stmt.name, stmt.columns).cat)
        ELSE checked(create_table(cat, stmt.name, stmt.columns))

exec_drop_table(cat, stmt) ==
    LET dropped(gone) ==
            IF stmt.if_exists \/ gone.dropped
            THEN Ret(gone.cat,
                     Ok(QueryResult_with_message("Table '" \o stmt.name \o "' dropped")))
            ELSE Ret(cat, Err("SqlError"))
    IN  dropped(drop_table(cat, stmt.name))

(* exec_select and exec_set_op on a new ExecCtx are the two calls that *)
(* exec_stmt_ctx makes for these two statements, and the loop over the *)
(* CTEs of a WITH from a new ExecCtx is the one that exec_stmt_ctx     *)
(* runs from a clone of the context it is handed                       *)
exec_stmt(cat, stmt) ==
    LET query(done) ==
            IF done.res.ok THEN Ret(done.cat, Ok(into_query_result(done.res.val)))
            ELSE done
    IN  CASE stmt.s \in {"Select", "With", "SetOp"} ->
                query(exec_stmt_ctx(cat, ExecCtx_new, stmt))
          [] stmt.s = "Insert" -> exec_insert(cat, stmt)
          [] stmt.s = "Update" -> exec_update(cat, stmt)
          [] stmt.s = "Delete" -> exec_delete(cat, stmt)
          [] stmt.s = "CreateTable" -> exec_create_table(cat, stmt)
          [] stmt.s = "DropTable" -> exec_drop_table(cat, stmt)
          [] stmt.s \in {"Begin", "Commit", "Rollback"} ->
                Ret(cat, Ok(QueryResult_with_message("OK")))

(* The statement loop of execute, on the statements the text parses to: each *)
(* statement runs on the catalog the one before it left, and the first error *)
(* ends the loop.                                                           *)
(* A statement loop whose ROLLBACK leaves no table behind *)
RECURSIVE execute_clearing_on_rollback(_, _, _, _)
execute_clearing_on_rollback(cat, stmts, i, last_result) ==
    IF i > Len(stmts) THEN Ret(cat, Ok(last_result))
    ELSE LET next(done) ==
                 IF ~done.res.ok THEN done
                 ELSE execute_clearing_on_rollback(
                          IF stmts[i].s = "Rollback" THEN Catalog_new ELSE done.cat,
                          stmts, i + 1, done.res.val)
         IN  next(exec_stmt(cat, stmts[i]))

RECURSIVE execute(_, _, _, _)
execute(cat, stmts, i, last_result) ==
    IF i > Len(stmts) THEN Ret(cat, Ok(last_result))
    ELSE LET next(done) ==
                 IF ~done.res.ok THEN done
                 ELSE execute(done.cat, stmts, i + 1, done.res.val)
         IN  next(exec_stmt(cat, stmts[i]))

(* ------------------------------------------------------------------ *)
(* The engine as a state machine: one call of execute per step, on a  *)
(* text of one statement.  statement is the statement of the latest   *)
(* call and last is what the call returned.                           *)
(* ------------------------------------------------------------------ *)

NoStatement == [s |-> "None"]

(* The lengths of every buffer and validity mask of a table's columns *)
buffer_lengths(store) ==
    UNION {{Len(store.columns[c].booleans), Len(store.columns[c].int64s),
            Len(store.columns[c].float64s), Len(store.columns[c].utf8s),
            Len(store.columns[c].nullmask)} : c \in 1..Len(store.columns)}

(* A table has room for one more INSERT below a bound on its rows *)
has_room(cat, name, rows) ==
    table_exists(cat, name) =>
        \A n \in buffer_lengths(unwrap(get_table(cat, name))) : n < rows

(* The bound a step keeps a table under: none, or fewer than rows rows in name *)
NoBound == [name |-> "", rows |-> 0]

Bound(name, rows) == [name |-> name, rows |-> rows]

(* One call of execute on the statements of a text, taken while the bound of the *)
(* specification leaves room for it and no earlier call has panicked; record is  *)
(* what statement keeps of the call                                              *)
ExecuteWhen(bound, stmts, record) ==
    \E done \in (IF /\ last # Panic
                    /\ bound = NoBound \/ has_room(catalog, bound.name, bound.rows)
                 THEN {execute(catalog, stmts, 1, QueryResult_empty)}
                 ELSE {}) :
        /\ catalog' = done.cat
        /\ statement' = record
        /\ last' = done.res

Execute(stmt) == ExecuteWhen(NoBound, << stmt >>, stmt)

(* Stored rows and buffer slots per table that the engine specification explores *)
MaxRows == 2

IntLit(n) == Literal(Int64(n))
StrLit(x) == Literal(Utf8(x))
NullLit == Literal(Null)
Name(x) == Column(None, x)

(* CREATE TABLE t (a INTEGER NOT NULL, d DATE) *)
EngineSchema == << ColumnDef("a", "Int64", FALSE), ColumnDef("d", "Date", TRUE) >>

(* The value lists of INSERT INTO t VALUES (a, d) *)
InsertedA == {IntLit(1), NullLit, StrLit("x")}
InsertedD == {NullLit, StrLit("1970-01-02"), StrLit("bad")}

(* The SET lists and WHERE clauses of UPDATE t and DELETE FROM t *)
EngineAssignments ==
    { << Assignment("a", NullLit) >>,
      << Assignment("a", IntLit(2)) >>,
      << Assignment("a", IntLit(2)), Assignment("d", StrLit("bad")) >> }

EngineWheres == { None, Some(BinaryOp(Name("a"), "Eq", IntLit(1))) }

Init ==
    /\ catalog = Catalog_new
    /\ statement = NoStatement
    /\ last = Ok(QueryResult_empty)

CreateTable ==
    \E if_not_exists \in BOOLEAN :
        Execute(CreateTableStatement("t", if_not_exists, EngineSchema))

DropTable ==
    \E if_exists \in BOOLEAN : Execute(DropTableStatement("t", if_exists))

Insert ==
    \E a \in InsertedA, d \in InsertedD :
        ExecuteWhen(Bound("t", MaxRows),
                    << InsertStatement("t", None, InsertValues_Values(<< << a, d >> >>)) >>,
                    InsertStatement("t", None, InsertValues_Values(<< << a, d >> >>)))

Update ==
    \E assignments \in EngineAssignments, where_clause \in EngineWheres :
        Execute(UpdateStatement("t", assignments, where_clause))

Delete ==
    \E where_clause \in EngineWheres : Execute(DeleteStatement("t", where_clause))

Next == CreateTable \/ DropTable \/ Insert \/ Update \/ Delete

Spec == Init /\ [][Next]_vars

(* ------------------------------------------------------------------ *)
(* Properties of the column store under the engine specification      *)
(* ------------------------------------------------------------------ *)

stored_tables == {unwrap(catalog[k]) : k \in {n \in TableKeys : is_some(catalog[n])}}

(* C1: after any sequence of CREATE TABLE, INSERT, UPDATE and DELETE statements, *)
(* failed ones included, every column of every table has its typed buffer (the   *)
(* one its data type selects) and its validity bitmask exactly row_count long.   *)
C1_BufferLengthsEqualRowCount ==
    \A store \in stored_tables :
        \A c \in 1..Len(store.schema) :
            /\ Len(type_buffer(store.columns[c], store.schema[c].data_type)) = store.row_count
            /\ Len(store.columns[c].nullmask) = store.row_count

(* C2: no stored row reads back NULL in a column declared NOT NULL, whatever *)
(* INSERT, UPDATE and DELETE statements have run.                          *)
C2_NotNullColumnNeverReadsNull ==
    \A store \in stored_tables :
        \A c \in 1..Len(store.schema) :
            ~store.schema[c].nullable =>
                \A r \in 1..store.row_count :
                    ~is_null(get_value_by_index(store, r, c).val)

(* ------------------------------------------------------------------ *)
(* Queries over one table.  The catalog holds                         *)
(*     CREATE TABLE t (name VARCHAR, p VARCHAR, k INTEGER)            *)
(* loaded by one INSERT; each step executes one SELECT.               *)
(* ------------------------------------------------------------------ *)

(* Rows of t that the query specification loads *)
MaxQueryRows == 2

SeqsUpTo(S, n) == UNION {[1..m -> S] : m \in 0..n}

QuerySchema ==
    << ColumnDef("name", "Utf8", TRUE), ColumnDef("p", "Utf8", TRUE),
       ColumnDef("k", "Int64", TRUE) >>

QueryRowValues ==
    { << StrLit("x"), StrLit("E"), IntLit(1) >>,
      << StrLit("y"), StrLit("E"), IntLit(1) >>,
      << StrLit("y"), StrLit("E"), IntLit(2) >>,
      << StrLit("x"), StrLit("M"), IntLit(2) >>,
      << StrLit("y"), StrLit("M"), IntLit(1) >> }

(* cat after CREATE TABLE name (...) and, if there are rows, INSERT INTO name *)
(* VALUES ...: the table created empty, then each row of evaluated literals   *)
(* appended to it                                                             *)
loaded(cat, name, schema, rows) ==
    put_table(create_table(cat, name, schema).cat, name,
              rebuild(DataStore_new(schema),
                      [r \in 1..Len(rows) |->
                          [c \in 1..Len(rows[r]) |->
                              eval_expr(rows[r][c], << >>, << >>).val]],
                      1).store)

FromT == Some(TableRef_Table("t", None))

Plain(expr) == SelectItem_Expr(expr, None)

(* SELECT columns FROM from [WHERE ...] [GROUP BY ...] [ORDER BY ...] [LIMIT ...] [OFFSET ...] *)
Query(columns, from, where_clause, group_by, order_by, limit, offset) ==
    SelectStatement(FALSE, columns, from, << >>, where_clause, group_by, None,
                    order_by, limit, offset)

RankOver == Function("RANK", << >>,
                     Some(WindowSpec(<< Name("p") >>, << OrderByItem(Name("k"), FALSE, None) >>)))

(* SELECT name, RANK() OVER (PARTITION BY p ORDER BY k DESC) AS r FROM t *)
RankQuery ==
    Query(<< Plain(Name("name")), SelectItem_Expr(RankOver, Some("r")) >>,
          FromT, None, << >>, << >>, None, None)

(* SELECT name, p, k, RANK() OVER (PARTITION BY p ORDER BY k DESC) AS r FROM t *)
RankQueryAllColumns ==
    Query(<< Plain(Name("name")), Plain(Name("p")), Plain(Name("k")),
             SelectItem_Expr(RankOver, Some("r")) >>,
          FromT, None, << >>, << >>, None, None)

OrderLists ==
    { << OrderByItem(Name("k"), TRUE, None) >>,
      << OrderByItem(Name("k"), FALSE, None) >>,
      << OrderByItem(Name("p"), TRUE, None), OrderByItem(Name("k"), FALSE, None) >> }

OrderedColumns ==
    { << Plain(Name("name")) >>,
      << Plain(Name("name")), Plain(Name("k")) >>,
      << SelectItem_Wildcard >> }

CountStar == Function("COUNT", << WildcardExpr >>, None)
SumK == Function("SUM", << Name("k") >>, None)

AggregateColumns ==
    { << Plain(CountStar) >>,
      << Plain(SumK) >>,
      << Plain(Function("MAX", << Name("k") >>, None)), Plain(CountStar) >>,
      << Plain(BinaryOp(SumK, "Add", IntLit(1))) >>,
      << Plain(Function("ABS", << SumK >>, None)) >> }

QueryWheres == { None, Some(BinaryOp(Name("k"), "Eq", IntLit(1))) }

(* (SELECT k AS x FROM t UNION ALL SELECT '1' AS x) s *)
MixedSource ==
    Some(TableRef_Subquery(
        SetOpStatement("Union", TRUE,
            Query(<< SelectItem_Expr(Name("k"), Some("x")) >>, FromT, None, << >>, << >>,
                  None, None),
            Query(<< SelectItem_Expr(StrLit("1"), Some("x")) >>, None, None, << >>, << >>,
                  None, None)),
        "s"))

GroupedQueries ==
    { Query(<< Plain(Name("p")), Plain(CountStar) >>, FromT, w, << Name("p") >>,
            << >>, None, None) : w \in QueryWheres }
    \cup { Query(<< Plain(CountStar) >>, FromT, w, << Name("p"), Name("k") >>,
                 << >>, None, None) : w \in QueryWheres }
    \cup { Query(<< Plain(Name("x")), Plain(CountStar) >>, MixedSource, None, << Name("x") >>,
                 << >>, None, None) }

QueryInit ==
    /\ \E rows \in SeqsUpTo(QueryRowValues, MaxQueryRows) :
           catalog = loaded(Catalog_new, "t", QuerySchema, rows)
    /\ statement = NoStatement
    /\ last = Ok(QueryResult_empty)

SelectWindow == \E q \in {RankQuery, RankQueryAllColumns} : Execute(q)

SelectOrdered ==
    \E columns \in OrderedColumns, order_by \in OrderLists :
        Execute(Query(columns, FromT, None, << >>, order_by, None, None))

SelectAggregate ==
    \E columns \in AggregateColumns, w \in QueryWheres, limit \in {None, Some(IntLit(0))} :
        Execute(Query(columns, FromT, w, << >>, << >>, limit, None))

SelectGrouped == \E q \in GroupedQueries : Execute(q)

QueryNext == SelectWindow \/ SelectOrdered \/ SelectAggregate \/ SelectGrouped

SpecQuery == QueryInit /\ [][QueryNext]_vars

(* ------------------------------------------------------------------ *)
(* Properties of SELECT under the query specification                 *)
(* ------------------------------------------------------------------ *)

(* The rows a table reference to name reads from the catalog *)
table_rows(cat, name) ==
    resolve_table_ref(cat, ExecCtx_new, TableRef_Table(name, None)).res.val.rows

(* The input of the statement's projection: its FROM source, joined and filtered *)
filtered_input(cat, stmt) ==
    apply_where(select_source(cat, ExecCtx_new, stmt).res.val, stmt.where_clause).val

(* 1 + the number of rows with the same p (column 2) and a strictly greater k (column 3) *)
rank_in_partition(rows, i) ==
    1 + Cardinality({j \in 1..Len(rows) :
                        rows[j][2] = rows[i][2] /\ rows[j][3].i > rows[i][3].i})

(* C3: SELECT name, RANK() OVER (PARTITION BY p ORDER BY k DESC) AS r FROM t returns, *)
(* for each row of t, its name with r = 1 + the number of rows of t that have the     *)
(* same p and a strictly greater k.                                                  *)
C3_RankWithinPartition ==
    (statement.s = "Select" /\ statement = RankQuery /\ last.ok) =>
        LET rows == table_rows(catalog, "t")
        IN  /\ Len(last.val.rows) = Len(rows)
            /\ \A i \in 1..Len(rows) :
                   last.val.rows[i] = << rows[i][1], Int64(rank_in_partition(rows, i)) >>

(* The statement without its ORDER BY *)
unordered(stmt) == [stmt EXCEPT !.order_by = << >>]

(* C4: the rows of a SELECT with ORDER BY over columns of its FROM source are the   *)
(* rows of the same SELECT without ORDER BY, permuted by the stable multi-key sort  *)
(* of the source rows under the order expressions (each output row stands for the  *)
(* source row it was projected from), whether or not the SELECT list has the keys. *)
C4_OrderByStableSortOfSource ==
    (statement.s = "Select" /\ Len(statement.order_by) > 0 /\ Len(statement.group_by) = 0
        /\ ~select_items_have_aggregate(statement.columns) /\ last.ok) =>
        LET src == filtered_input(catalog, statement)
            cmp(a, b) == order_by_cmp(statement.order_by, src.cols, src.rows[a], src.rows[b], 1)
            n == Len(src.rows)
            perm == sort_by([i \in 1..n |-> i],
                            [j \in 1..n |-> [i \in 1..n |-> cmp(j, i)]])
            plain == exec_select(catalog, ExecCtx_new, unordered(statement)).res.val.rows
        IN  last.val.rows = [q \in 1..Len(plain) |-> plain[perm[q]]]

RECURSIVE contains_aggregate_call(_)
contains_aggregate_call(expr) ==
    CASE expr.e = "Function" ->
            \/ (~is_some(expr.over) /\ to_uppercase(expr.name) \in AggregateNames)
            \/ \E a \in 1..Len(expr.args) : contains_aggregate_call(expr.args[a])
      [] expr.e = "BinaryOp" ->
            contains_aggregate_call(expr.left) \/ contains_aggregate_call(expr.right)
      [] OTHER -> FALSE

(* C5: a SELECT whose list contains an aggregate call (at any depth) and that has no *)
(* GROUP BY returns exactly one row, for every number of input rows; stated for the  *)
(* statements without LIMIT and OFFSET.                                             *)
C5_AggregateWithoutGroupByOneRow ==
    (statement.s = "Select" /\ Len(statement.group_by) = 0
        /\ (\E c \in 1..Len(statement.columns) :
               statement.columns[c].item = "Expr"
               /\ contains_aggregate_call(statement.columns[c].expr))
        /\ ~is_some(statement.limit) /\ ~is_some(statement.offset) /\ last.ok) =>
        Len(last.val.rows) = 1

(* C6: a SELECT with GROUP BY g and no HAVING, LIMIT or OFFSET returns as many rows *)
(* as there are distinct tuples of values of g over the rows that pass WHERE.       *)
C6_GroupCountIsDistinctTuples ==
    (statement.s = "Select" /\ Len(statement.group_by) > 0 /\ ~is_some(statement.having)
        /\ ~is_some(statement.limit) /\ ~is_some(statement.offset) /\ last.ok) =>
        LET input == filtered_input(catalog, statement)
            g_values(row) == [g \in 1..Len(statement.group_by) |->
                                 eval_expr(statement.group_by[g], row, input.cols).val]
        IN  Len(last.val.rows) =
                Cardinality({g_values(input.rows[i]) : i \in 1..Len(input.rows)})

(* ------------------------------------------------------------------ *)
(* Join specification: t(a) and u(a) are loaded; each step executes   *)
(* SELECT * FROM t <join> u with one join type and one condition.     *)
(* ------------------------------------------------------------------ *)

(* Rows loaded into each of t and u *)
MaxSideRows == 2

SideSchema == << ColumnDef("a", "Int64", TRUE) >>

LeftRowValues == { << IntLit(1) >>, << NullLit >> }

RightRowValues == { << IntLit(1) >>, << IntLit(2) >> }

(* The catalog after creating and loading t and u *)
loaded_pair(left_rows, right_rows) ==
    loaded(loaded(Catalog_new, "t", SideSchema, left_rows), "u", SideSchema, right_rows)

PairInit ==
    /\ \E left_rows \in SeqsUpTo(LeftRowValues, MaxSideRows),
          right_rows \in SeqsUpTo(RightRowValues, MaxSideRows) :
           catalog = loaded_pair(left_rows, right_rows)
    /\ statement = NoStatement
    /\ last = Ok(QueryResult_empty)

ConditionalJoinTypes == {"Inner", "Left", "Right", "Full"}

(* ON t.a = u.a, ON t.a < u.a and USING (a) *)
JoinConditions ==
    { JoinCondition_On(BinaryOp(Column(Some("t"), "a"), "Eq", Column(Some("u"), "a"))),
      JoinCondition_On(BinaryOp(Column(Some("t"), "a"), "Lt", Column(Some("u"), "a"))),
      JoinCondition_Using(<< "a" >>) }

(* SELECT * FROM t <join_type> JOIN u <condition> *)
JoinQuery(join_type, condition) ==
    SelectStatement(FALSE, << SelectItem_Wildcard >>, FromT,
                    << Join(join_type, TableRef_Table("u", None), condition) >>,
                    None, << >>, None, << >>, None, None)

SelectJoin ==
    \/ \E join_type \in ConditionalJoinTypes, condition \in JoinConditions :
           Execute(JoinQuery(join_type, condition))
    \/ Execute(JoinQuery("Cross", JoinCondition_None))

JoinNext == SelectJoin

SpecJoin == PairInit /\ [][JoinNext]_vars

(* How many rows of a sequence equal a given row *)
occurrences(rows, row) == Cardinality({i \in 1..Len(rows) : rows[i] = row})

(* Whether the statement's join pairs left row i of t with right row j of u: every *)
(* pair under CROSS JOIN, otherwise the pairs its condition accepts                *)
pair_matches(cat, join, i, j) ==
    \/ join.join_type = "Cross"
    \/ eval_join_condition(join.condition,
                           table_rows(cat, "t")[i] \o table_rows(cat, "u")[j],
                           << Col(Some("t"), "a"), Col(Some("u"), "a") >>).val

(* How often a row is due in the join's result: once per matched pair that combines *)
(* to it, once per unmatched left row padded to it under LEFT and FULL, once per    *)
(* unmatched right row padded to it under RIGHT and FULL                            *)
due_occurrences(cat, join, row) ==
    LET L == table_rows(cat, "t")
        R == table_rows(cat, "u")
        pairs == {ij \in (1..Len(L)) \X (1..Len(R)) :
                     pair_matches(cat, join, ij[1], ij[2]) /\ L[ij[1]] \o R[ij[2]] = row}
        left_padded ==
            IF join.join_type \in {"Left", "Full"}
            THEN {i \in 1..Len(L) : /\ \A j \in 1..Len(R) : ~pair_matches(cat, join, i, j)
                                    /\ L[i] \o << Null >> = row}
            ELSE {}
        right_padded ==
            IF join.join_type \in {"Right", "Full"}
            THEN {j \in 1..Len(R) : /\ \A i \in 1..Len(L) : ~pair_matches(cat, join, i, j)
                                    /\ << Null >> \o R[j] = row}
            ELSE {}
    IN  Cardinality(pairs) + Cardinality(left_padded) + Cardinality(right_padded)

(* Every row a join of t and u can be due or can return *)
JoinRowUniverse ==
    {<< x, y >> : x \in {Null, Int64(1), Int64(2)}, y \in {Null, Int64(1), Int64(2)}}

(* C7: the result of SELECT * FROM t <join> u has at least |t| rows for a LEFT    *)
(* join, at least |u| rows for a RIGHT join and at least max(|t|, |u|) rows for a *)
(* FULL join, and it holds every matched (left, right) pair exactly once: each    *)
(* row occurs as often as there are matched pairs combining to it plus unmatched  *)
(* rows null-padded to it.                                                        *)
C7_JoinRowCountsAndMatchedPairsOnce ==
    (statement.s = "Select" /\ Len(statement.joins) = 1) =>
        LET join == statement.joins[1]
            nl == Len(table_rows(catalog, "t"))
            nr == Len(table_rows(catalog, "u"))
        IN  /\ last.ok
            /\ Len(last.val.columns) = 2
            /\ join.join_type \in {"Left", "Full"} => Len(last.val.rows) >= nl
            /\ join.join_type \in {"Right", "Full"} => Len(last.val.rows) >= nr
            /\ \A row \in JoinRowUniverse :
                   occurrences(last.val.rows, row) = due_occurrences(catalog, join, row)
            /\ \A q \in 1..Len(last.val.rows) : last.val.rows[q] \in JoinRowUniverse

(* A FULL JOIN ... ON t.a = u.a over t = (1), (NULL) and u = (1), (2): one matched *)
(* pair, one unmatched left row and one unmatched right row                        *)
C7_FullJoinWithMatchedAndUnmatchedRows ==
    /\ statement.s = "Select" /\ Len(statement.joins) = 1
    /\ statement.joins[1].join_type = "Full"
    /\ statement.joins[1].condition.cond = "On"
    /\ last.ok
    /\ occurrences(last.val.rows, << Int64(1), Int64(1) >>) = 1
    /\ occurrences(last.val.rows, << Null, Null >>) = 1
    /\ occurrences(last.val.rows, << Null, Int64(2) >>) = 1
    /\ Len(last.val.rows) = 3

(* ------------------------------------------------------------------ *)
(* Limit specification: t(a) is loaded; each step executes            *)
(* SELECT a FROM t [ORDER BY a DESC] LIMIT k OFFSET j.                *)
(* ------------------------------------------------------------------ *)

(* Rows loaded into t *)
MaxLimitRows == 3

(* Largest LIMIT and OFFSET *)
MaxLimit == 2

LimitInit ==
    /\ \E rows \in SeqsUpTo(RightRowValues, MaxLimitRows) :
           catalog = loaded(Catalog_new, "t", SideSchema, rows)
    /\ statement = NoStatement
    /\ last = Ok(QueryResult_empty)

SelectLimit ==
    \E k \in 0..MaxLimit, j \in 0..MaxLimit,
       order_by \in {<< >>, << OrderByItem(Name("a"), FALSE, None) >>} :
        Execute(Query(<< Plain(Name("a")) >>, FromT, None, << >>, order_by,
                      Some(IntLit(k)), Some(IntLit(j))))

LimitNext == SelectLimit

SpecLimit == LimitInit /\ [][LimitNext]_vars

(* The rows of the statement executed without its LIMIT and OFFSET *)
unlimited_rows(cat, stmt) ==
    exec_select(cat, ExecCtx_new, [stmt EXCEPT !.limit = None, !.offset = None]).res.val.rows

(* C8: SELECT ... LIMIT k OFFSET j returns, of the n rows the statement has    *)
(* without LIMIT and OFFSET, exactly those at 0-based positions min(j, n) ..  *)
(* min(min(j, n) + k, n) - 1, in their order: at most k rows, the first      *)
(* min(j, n) skipped.                                                        *)
C8_LimitOffsetIsSlice ==
    (statement.s = "Select" /\ is_some(statement.limit) /\ is_some(statement.offset)) =>
        LET full == unlimited_rows(catalog, statement)
            n == Len(full)
            k == unwrap(statement.limit).v.i
            j == unwrap(statement.offset).v.i
            start == IF j < n THEN j ELSE n
            end == IF start + k < n THEN start + k ELSE n
        IN  /\ last.ok
            /\ Len(last.val.rows) = end - start
            /\ Len(last.val.rows) <= k
            /\ \A q \in 1..(end - start) : last.val.rows[q] = full[start + q]

(* LIMIT 1 OFFSET 1 over three rows whose second differs from the first and the *)
(* third: one row is skipped, one returned, one cut                           *)
C8_LimitCutsBothEnds ==
    /\ statement.s = "Select" /\ is_some(statement.limit) /\ is_some(statement.offset)
    /\ unwrap(statement.limit).v.i = 1
    /\ unwrap(statement.offset).v.i = 1
    /\ Len(unlimited_rows(catalog, statement)) = 3
    /\ unlimited_rows(catalog, statement)[2] # unlimited_rows(catalog, statement)[1]
    /\ last.ok
    /\ last.val.rows = << unlimited_rows(catalog, statement)[2] >>

(* ------------------------------------------------------------------ *)
(* Set operation specification: t(a) and u(a) are loaded; each step   *)
(* executes SELECT a FROM t <op> [ALL] SELECT ... FROM u.             *)
(* ------------------------------------------------------------------ *)

SelectA(name) ==
    Query(<< Plain(Name("a")) >>, Some(TableRef_Table(name, None)), None, << >>, << >>,
          None, None)

(* SELECT a, a FROM u *)
SelectATwice ==
    Query(<< Plain(Name("a")), Plain(Name("a")) >>, Some(TableRef_Table("u", None)),
          None, << >>, << >>, None, None)

SelectSetOp ==
    \E op \in {"Union", "Intersect", "Except"}, all \in BOOLEAN,
       right \in {SelectA("u"), SelectATwice} :
        Execute(SetOpStatement(op, all, SelectA("t"), right))

SetOpNext == SelectSetOp

SpecSetOp == PairInit /\ [][SetOpNext]_vars

(* C9: every result execute returns has every row as long as its column list *)
C9_RowsAsWideAsColumns ==
    last.ok => \A q \in 1..Len(last.val.rows) :
                   Len(last.val.rows[q]) = Len(last.val.columns)

(* The rows of one side of a set operation *)
side_rows(cat, stmt) == exec_stmt_ctx(cat, ExecCtx_new, stmt).res.val.rows

(* The rows a set operation combines before any duplicate is removed: both sides *)
(* for UNION, the left rows present on the right for INTERSECT, the left rows    *)
(* absent from the right for EXCEPT                                              *)
combined_rows(op, left_rows, right_rows) ==
    LET present(row) == \E q \in 1..Len(right_rows) : right_rows[q] = row
        absent(row) == ~present(row)
    IN  CASE op = "Union" -> left_rows \o right_rows
          [] op = "Intersect" -> SelectSeq(left_rows, present)
          [] OTHER -> SelectSeq(left_rows, absent)

(* The first occurrence of every row, in order *)
first_occurrences(rows) ==
    LET firsts == ascending({i \in 1..Len(rows) : \A q \in 1..(i - 1) : rows[q] # rows[i]})
    IN  [p \in 1..Len(firsts) |-> rows[firsts[p]]]

(* C10: UNION, INTERSECT and EXCEPT of two sides with the same number of columns *)
(* return, without ALL, no row twice, keeping the first occurrence of each       *)
(* combined row; with ALL they return the combined rows with their duplicates.   *)
C10_SetOpDedupUnlessAll ==
    (/\ statement.s = "SetOp"
     /\ Len(statement.left.columns) = Len(statement.right.columns)
     /\ last.ok) =>
        LET raw == combined_rows(statement.op, side_rows(catalog, statement.left),
                                 side_rows(catalog, statement.right))
        IN  /\ statement.all => last.val.rows = raw
            /\ ~statement.all =>
                   /\ \A p, q \in 1..Len(last.val.rows) :
                          p # q => last.val.rows[p] # last.val.rows[q]
                   /\ last.val.rows = first_occurrences(raw)

(* ------------------------------------------------------------------ *)
(* Aggregate specification: t(g, val) is loaded, val being 6, 12 or   *)
(* NULL; each step executes one aggregate over val, with COUNT( * ),  *)
(* over the whole table or per value of g.                            *)
(* ------------------------------------------------------------------ *)

(* Rows loaded into t *)
MaxAggRows == 2

AggSchema == << ColumnDef("g", "Utf8", TRUE), ColumnDef("val", "Int64", TRUE) >>

AggRowValues ==
    { << StrLit(g), v >> : g \in {"x", "y"}, v \in {IntLit(6), IntLit(12), NullLit} }

AggInit ==
    /\ \E rows \in SeqsUpTo(AggRowValues, MaxAggRows) :
           catalog = loaded(Catalog_new, "t", AggSchema, rows)
    /\ statement = NoStatement
    /\ last = Ok(QueryResult_empty)

AggFunctions == {"SUM", "AVG", "MIN", "MAX", "COUNT"}

OverVal(f) == Function(f, << Name("val") >>, None)

(* SELECT f(val), COUNT( * ) FROM t *)
SelectOverTable ==
    \E f \in AggFunctions :
        Execute(Query(<< Plain(OverVal(f)), Plain(CountStar) >>, FromT, None, << >>, << >>,
                      None, None))

(* SELECT f(val), COUNT( * ) FROM t GROUP BY g *)
SelectPerGroup ==
    \E f \in AggFunctions :
        Execute(Query(<< Plain(OverVal(f)), Plain(CountStar) >>, FromT, None,
                      << Name("g") >>, << >>, None, None))

AggNext == SelectOverTable \/ SelectPerGroup

SpecAgg == AggInit /\ [][AggNext]_vars

RECURSIVE sum_ints(_)
sum_ints(vals) == IF Len(vals) = 0 THEN 0 ELSE Head(vals).i + sum_ints(Tail(vals))

(* What the aggregate f is due over the values vals of one group: the aggregate of *)
(* the values that are not NULL, NULL (0 for COUNT) when there is none             *)
due_aggregate(f, vals) ==
    LET inputs == SelectSeq(vals, LAMBDA v : ~is_null(v))
        least == CHOOSE v \in {inputs[q] : q \in 1..Len(inputs)} :
                     \A q \in 1..Len(inputs) : v.i <= inputs[q].i
        most == CHOOSE v \in {inputs[q] : q \in 1..Len(inputs)} :
                    \A q \in 1..Len(inputs) : v.i >= inputs[q].i
    IN  CASE f = "COUNT" -> Int64(Len(inputs))
          [] Len(inputs) = 0 -> Null
          [] f = "SUM" -> Int64(sum_ints(inputs))
          [] f = "AVG" -> Float64(sum_ints(inputs) \div Len(inputs))
          [] f = "MIN" -> least
          [] OTHER -> most

(* The groups of the statement over rows, each the rows of one value of g (column 1), *)
(* in the order the values first appear; the whole table when there is no GROUP BY    *)
due_groups(stmt, rows) ==
    IF Len(stmt.group_by) = 0 THEN << rows >>
    ELSE LET opens == ascending({i \in 1..Len(rows) :
                                    \A j \in 1..(i - 1) : rows[j][1] # rows[i][1]})
         IN  [p \in 1..Len(opens) |->
                 SelectSeq(rows, LAMBDA r : r[1] = rows[opens[p]][1])]

(* C11: SELECT f(val), COUNT( * ) FROM t [GROUP BY g], for f among SUM, AVG, MIN, MAX and *)
(* COUNT, returns one row per group with f over the group's values of val that are     *)
(* not NULL, NULL when the group has none (0 for COUNT), and the group's row count.     *)
C11_AggregatesIgnoreNulls ==
    statement.s = "Select" =>
        LET groups == due_groups(statement, table_rows(catalog, "t"))
            f == statement.columns[1].expr.name
        IN  /\ last.ok
            /\ last.val.rows =
                   [p \in 1..Len(groups) |->
                       << due_aggregate(f, [q \in 1..Len(groups[p]) |-> groups[p][q][2]]),
                          Int64(Len(groups[p])) >>]

(* An aggregate answered for a group that holds a NULL and a value that is not NULL *)
C11_GroupWithNullAndValue ==
    /\ statement.s = "Select"
    /\ last.ok
    /\ \E p \in 1..Len(due_groups(statement, table_rows(catalog, "t"))) :
           LET group == due_groups(statement, table_rows(catalog, "t"))[p]
           IN  /\ \E q \in 1..Len(group) : is_null(group[q][2])
               /\ \E q \in 1..Len(group) : ~is_null(group[q][2])

(* ------------------------------------------------------------------ *)
(* WITH specification: t(a) and u(a) are loaded; each step executes   *)
(* a WITH whose CTEs read t, directly or through the CTE before, and  *)
(* whose body reads the last CTE, or a plain SELECT after it.         *)
(* ------------------------------------------------------------------ *)

(* Rows u may hold before a WITH ... INSERT INTO u *)
MaxWithRows == 2

(* The name of the CTE, c or the name of the catalog table u, and the spelling *)
(* of the reference to it                                                     *)
CteNames == { << "c", "c" >>, << "c", "C" >>, << "u", "u" >>, << "U", "u" >> }

(* WITH name AS (SELECT a FROM t) SELECT a FROM name *)
SelectFromCte ==
    \E n \in CteNames :
        Execute(WithStatement(<< Cte(n[1], SelectA("t")) >>, SelectA(n[2])))

(* WITH name AS (SELECT a FROM t), d AS (SELECT a FROM name) SELECT a FROM d *)
SelectChained ==
    \E n \in CteNames :
        Execute(WithStatement(<< Cte(n[1], SelectA("t")), Cte("d", SelectA(n[2])) >>,
                              SelectA("d")))

(* WITH name AS (SELECT a FROM t) INSERT INTO u SELECT a FROM name *)
InsertFromCte ==
    \E n \in CteNames :
        \E stmt \in {WithStatement(<< Cte(n[1], SelectA("t")) >>,
                                   InsertStatement("u", None,
                                                   InsertValues_Select(SelectA(n[2]))))} :
            ExecuteWhen(Bound("u", MaxWithRows + 1), << stmt >>, stmt)

(* SELECT a FROM name, as a statement of its own *)
SelectLater == \E name \in {"c", "u"} : Execute(SelectA(name))

WithNext == SelectFromCte \/ SelectChained \/ InsertFromCte \/ SelectLater

SpecWith == PairInit /\ [][WithNext]_vars

(* C12: a WITH whose CTEs hold the rows of t succeeds, and the reference to the last  *)
(* CTE in its body reads those rows, whether or not a catalog table has the CTE's    *)
(* name: a SELECT body returns them and leaves the catalog as it was, an INSERT INTO *)
(* u ... SELECT body appends them to u and leaves t as it was.  A later SELECT from  *)
(* the name reads the catalog: the rows of u, an error for c.                        *)
C12_CteShadowsCatalogAndStaysLocal ==
    [][ /\ statement'.s = "With" =>
               /\ last'.ok
               /\ statement'.body.s = "Select" =>
                      /\ last'.val.rows = table_rows(catalog, "t")
                      /\ catalog' = catalog
               /\ statement'.body.s = "Insert" =>
                      /\ table_rows(catalog', "u")
                            = table_rows(catalog, "u") \o table_rows(catalog, "t")
                      /\ get_table(catalog', "t") = get_table(catalog, "t")
        /\ statement'.s = "Select" =>
               /\ catalog' = catalog
               /\ IF statement'.from[1].name = "u"
                  THEN last'.ok /\ last'.val.rows = table_rows(catalog, "u")
                  ELSE ~last'.ok
      ]_vars

(* ------------------------------------------------------------------ *)
(* Table specification: the catalog starts empty; each step executes  *)
(* a CREATE TABLE or a DROP TABLE of t, under either spelling and     *)
(* with or without its guard, or a statement that references t.       *)
(* ------------------------------------------------------------------ *)

(* Rows t may hold *)
MaxTableRows == 2

TableSpellings == {"t", "T"}

TableSchemas ==
    { SideSchema,
      << ColumnDef("a", "Int64", TRUE), ColumnDef("b", "Int64", TRUE) >> }

CreateSpelled ==
    \E name \in TableSpellings, if_not_exists \in BOOLEAN, schema \in TableSchemas :
        Execute(CreateTableStatement(name, if_not_exists, schema))

DropSpelled ==
    \E name \in TableSpellings, if_exists \in BOOLEAN :
        Execute(DropTableStatement(name, if_exists))

(* INSERT INTO t VALUES (1), while t has room for the row *)
InsertOne == InsertStatement("t", None, InsertValues_Values(<< << IntLit(1) >> >>))

ReferencingStatements ==
    { SelectA("t"),
      UpdateStatement("t", << Assignment("a", IntLit(2)) >>, None),
      DeleteStatement("t", None),
      InsertOne }

Reference ==
    \E stmt \in ReferencingStatements :
        ExecuteWhen(IF stmt = InsertOne THEN Bound("t", MaxTableRows) ELSE NoBound,
                    << stmt >>, stmt)

TableNext == CreateSpelled \/ DropSpelled \/ Reference

SpecTable == Init /\ [][TableNext]_vars

Token(kind) == [t |-> kind, s |-> ""]

Ident(word) == [t |-> "Ident", s |-> word]

Eof == Token("Eof")

keyword_or_ident(word) ==
    CASE word = "DROP" -> Token("Drop")
      [] word = "TABLE" -> Token("Table")
      [] word = "DELETE" -> Token("Delete")
      [] word = "FROM" -> Token("From")
      [] word = "IF" -> Token("If")
      [] word = "EXISTS" -> Token("Exists")
      [] word = "BEGIN" -> Token("Begin")
      [] word = "COMMIT" -> Token("Commit")
      [] word = "ROLLBACK" -> Token("Rollback")
      [] word = "TRANSACTION" -> Token("Transaction")
      [] word = "SELECT" -> Token("Select")
      [] word = "WITH" -> Token("With")
      [] word = "AS" -> Token("As")
      [] word = "UNION" -> Token("Union")
      [] word = "ALL" -> Token("All")
      [] OTHER -> Ident(word)

next_token(lexeme) ==
    CASE lexeme = ";" -> Ok(Token("Semicolon"))
      [] lexeme = "*" -> Ok(Token("Star"))
      [] lexeme = "(" -> Ok(Token("LParen"))
      [] lexeme = ")" -> Ok(Token("RParen"))
      [] lexeme = "#" -> Err("SqlError")
      [] OTHER -> Ok(keyword_or_ident(lexeme))

RECURSIVE tokenize(_, _, _)
tokenize(input, pos, tokens) ==
    IF pos > Len(input) THEN Ok(Append(tokens, Eof))
    ELSE LET push(tok) == IF ~tok.ok THEN tok
                          ELSE tokenize(input, pos + 1, Append(tokens, tok.val))
         IN  push(next_token(input[pos]))

(* A parser step: what it parsed and the position after it, or the error *)
Parsed(v, pos) == [ok |-> TRUE, val |-> v, err |-> "", pos |-> pos]

Unparsed == [ok |-> FALSE, val |-> << >>, err |-> "SqlError", pos |-> 0]

peek(tokens, pos) == IF pos <= Len(tokens) THEN tokens[pos] ELSE Eof

is_eof(tokens, pos) == peek(tokens, pos).t = "Eof"

expect_ident(tokens, pos) ==
    CASE peek(tokens, pos).t = "Ident" -> Parsed(peek(tokens, pos).s, pos + 1)
      [] peek(tokens, pos).t = "Table" -> Parsed("table", pos + 1)
      [] OTHER -> Unparsed

(* try_consume of TRANSACTION *)
after_transaction(tokens, pos) ==
    IF peek(tokens, pos).t = "Transaction" THEN pos + 1 ELSE pos

parse_drop(tokens, pos) ==
    LET if_exists == peek(tokens, pos + 2).t = "If"
        named(name) == IF ~name.ok THEN name
                       ELSE Parsed(DropTableStatement(name.val, if_exists), name.pos)
    IN  IF peek(tokens, pos).t # "Drop" THEN Unparsed
        ELSE IF peek(tokens, pos + 1).t # "Table" THEN Unparsed
        ELSE IF if_exists /\ peek(tokens, pos + 3).t # "Exists" THEN Unparsed
        ELSE named(expect_ident(tokens, IF if_exists THEN pos + 4 ELSE pos + 2))

parse_delete(tokens, pos) ==
    LET named(table) == IF ~table.ok THEN table
                        ELSE Parsed(DeleteStatement(table.val, None), table.pos)
    IN  IF peek(tokens, pos).t # "Delete" THEN Unparsed
        ELSE IF peek(tokens, pos + 1).t # "From" THEN Unparsed
        ELSE named(expect_ident(tokens, pos + 2))

RECURSIVE parse_statement(_, _)

(* The alias of a table name: AS name, or a name that is no reserved word, or none *)
parse_alias(tokens, pos) ==
    LET at == IF peek(tokens, pos).t = "As" THEN pos + 1 ELSE pos
    IN  IF peek(tokens, at).t = "Ident" THEN Parsed(Some(peek(tokens, at).s), at + 1)
        ELSE Parsed(None, at)

(* ( statement ) AS alias, or ( statement ) alias with "subq" when no name follows; *)
(* or name [alias]                                                                  *)
parse_table_ref(tokens, pos) ==
    LET aliased(query, alias) ==
            IF ~alias.ok THEN alias
            ELSE Parsed(TableRef_Subquery(query, alias.val), alias.pos)
        defaulted(query, alias, at) ==
            IF alias.ok THEN Parsed(TableRef_Subquery(query, alias.val), alias.pos)
            ELSE Parsed(TableRef_Subquery(query, "subq"), at)
        closed(query) ==
            IF ~query.ok THEN query
            ELSE IF peek(tokens, query.pos).t # "RParen" THEN Unparsed
            ELSE IF peek(tokens, query.pos + 1).t = "As"
            THEN aliased(query.val, expect_ident(tokens, query.pos + 2))
            ELSE defaulted(query.val, expect_ident(tokens, query.pos + 1), query.pos + 1)
        named(name, alias) == Parsed(TableRef_Table(name.val, alias.val), alias.pos)
        table(name) == IF ~name.ok THEN name ELSE named(name, parse_alias(tokens, name.pos))
    IN  IF peek(tokens, pos).t = "LParen" THEN closed(parse_statement(tokens, pos + 1))
        ELSE table(expect_ident(tokens, pos))

(* SELECT * [FROM table_ref], with no other select item and no clause after FROM *)
parse_select(tokens, pos) ==
    LET selected(from, after) ==
            Parsed(SelectStatement(FALSE, << SelectItem_Wildcard >>, from, << >>, None,
                                   << >>, None, << >>, None, None), after)
        sourced(table_ref) == IF ~table_ref.ok THEN table_ref
                              ELSE selected(Some(table_ref.val), table_ref.pos)
    IN  IF peek(tokens, pos).t # "Select" THEN Unparsed
        ELSE IF peek(tokens, pos + 1).t # "Star" THEN Unparsed
        ELSE IF peek(tokens, pos + 2).t = "From" THEN sourced(parse_table_ref(tokens, pos + 3))
        ELSE selected(None, pos + 2)

(* WITH name AS ( statement ) body, with one common table expression *)
parse_with(tokens, pos) ==
    LET whole(name, query, body) ==
            IF ~body.ok THEN body
            ELSE Parsed(WithStatement(<< Cte(name, query) >>, body.val), body.pos)
        closed(name, query) ==
            IF ~query.ok THEN query
            ELSE IF peek(tokens, query.pos).t # "RParen" THEN Unparsed
            ELSE whole(name, query.val, parse_statement(tokens, query.pos + 1))
        opened(name) ==
            IF ~name.ok THEN name
            ELSE IF peek(tokens, name.pos).t # "As" THEN Unparsed
            ELSE IF peek(tokens, name.pos + 1).t # "LParen" THEN Unparsed
            ELSE closed(name.val, parse_statement(tokens, name.pos + 2))
    IN  IF peek(tokens, pos).t # "With" THEN Unparsed
        ELSE opened(expect_ident(tokens, pos + 1))

parse_primary_stmt(tokens, pos) ==
    LET closed(stmt) == IF ~stmt.ok THEN stmt
                        ELSE IF peek(tokens, stmt.pos).t # "RParen" THEN Unparsed
                        ELSE Parsed(stmt.val, stmt.pos + 1)
    IN  CASE peek(tokens, pos).t = "Select" -> parse_select(tokens, pos)
          [] peek(tokens, pos).t = "With" -> parse_with(tokens, pos)
          [] peek(tokens, pos).t = "Delete" -> parse_delete(tokens, pos)
          [] peek(tokens, pos).t = "Drop" -> parse_drop(tokens, pos)
          [] peek(tokens, pos).t \in {"Begin", "Commit", "Rollback"} ->
                Parsed([s |-> peek(tokens, pos).t], after_transaction(tokens, pos + 1))
          [] peek(tokens, pos).t = "LParen" -> closed(parse_statement(tokens, pos + 1))
          [] OTHER -> Unparsed

(* left [UNION [ALL] primary]..., the operations chained to the left *)
RECURSIVE parse_set_op(_, _)
parse_set_op(tokens, left) ==
    LET all == peek(tokens, left.pos + 1).t = "All"
        chained(right) ==
            IF ~right.ok THEN right
            ELSE parse_set_op(tokens,
                              Parsed(SetOpStatement("Union", all, left.val, right.val),
                                     right.pos))
    IN  IF ~left.ok THEN left
        ELSE IF peek(tokens, left.pos).t # "Union" THEN left
        ELSE chained(parse_primary_stmt(tokens, IF all THEN left.pos + 2 ELSE left.pos + 1))

parse_statement(tokens, pos) == parse_set_op(tokens, parse_primary_stmt(tokens, pos))

RECURSIVE skip_semicolons(_, _)
skip_semicolons(tokens, pos) ==
    IF peek(tokens, pos).t = "Semicolon" THEN skip_semicolons(tokens, pos + 1) ELSE pos

(* A parse that stops at the first statement in error and returns the ones before it *)
RECURSIVE parse_keeping_prefix(_, _, _)
parse_keeping_prefix(tokens, pos, stmts) ==
    LET push(stmt) == IF ~stmt.ok THEN Ok(stmts)
                      ELSE parse_keeping_prefix(tokens, skip_semicolons(tokens, stmt.pos),
                                                Append(stmts, stmt.val))
        at(start) == IF is_eof(tokens, start) THEN Ok(stmts)
                     ELSE push(parse_statement(tokens, start))
    IN  IF is_eof(tokens, pos) THEN Ok(stmts)
        ELSE at(skip_semicolons(tokens, pos))

RECURSIVE parse(_, _, _)
parse(tokens, pos, stmts) ==
    LET push(stmt) == IF ~stmt.ok THEN Err(stmt.err)
                      ELSE parse(tokens, skip_semicolons(tokens, stmt.pos),
                                 Append(stmts, stmt.val))
        at(start) == IF is_eof(tokens, start) THEN Ok(stmts)
                     ELSE push(parse_statement(tokens, start))
    IN  IF is_eof(tokens, pos) THEN Ok(stmts)
        ELSE at(skip_semicolons(tokens, pos))

(* execute on the statements of a text that parsed *)
run_parsed(cat, stmts) ==
    IF ~stmts.ok THEN Ret(cat, stmts) ELSE execute(cat, stmts.val, 1, QueryResult_empty)

(* Parser::new(tokens).parse() on the tokens of a text that lexed *)
parse_tokens(tokens) == IF ~tokens.ok THEN tokens ELSE parse(tokens.val, 1, << >>)

(* execute on a text: nothing runs unless the whole text lexes and parses *)
execute_sql(cat, sql) == run_parsed(cat, parse_tokens(tokenize(sql, 1, << >>)))

(* ------------------------------------------------------------------ *)
(* Batch specification: t(a) is loaded; each step executes a text of  *)
(* several statements, any of which may be in error.                  *)
(* ------------------------------------------------------------------ *)

(* Rows loaded into t *)
MaxBatchRows == 1

(* Statements of a text *)
MaxStatements == 2

GoodPieces ==
    { << "DROP", "TABLE", "t" >>,
      << "DELETE", "FROM", "t" >>,
      << "BEGIN", "TRANSACTION" >> }

(* DROP without TABLE, IF without EXISTS, and a character no token starts with *)
BadPieces ==
    { << "DROP", "t" >>,
      << "DROP", "TABLE", "IF", "t" >>,
      << "DELETE", "FROM", "#" >> }

(* The pieces in order, a semicolon after each but the last *)
RECURSIVE text_of(_, _)
text_of(pieces, i) ==
    IF i > Len(pieces) THEN << >>
    ELSE IF i = Len(pieces) THEN pieces[i]
    ELSE pieces[i] \o << ";" >> \o text_of(pieces, i + 1)

BatchInit ==
    /\ \E rows \in SeqsUpTo(RightRowValues, MaxBatchRows) :
           catalog = loaded(Catalog_new, "t", SideSchema, rows)
    /\ statement = NoStatement
    /\ last = Ok(QueryResult_empty)

ExecuteText ==
    \E pieces \in SeqsUpTo(GoodPieces \cup BadPieces, MaxStatements) :
        \E done \in {execute_sql(catalog, text_of(pieces, 1))} :
            /\ catalog' = done.cat
            /\ statement' = [s |-> "Text", pieces |-> pieces]
            /\ last' = done.res

BatchNext == ExecuteText

SpecBatch == BatchInit /\ [][BatchNext]_vars

(* C14: a text with a lexical or parse error in any of its statements returns an *)
(* error, and the catalog after the call is the catalog before it.               *)
C14_ErrorAbortsWholeBatch ==
    [][ (\E i \in 1..Len(statement'.pieces) : statement'.pieces[i] \in BadPieces)
            => /\ ~last'.ok
               /\ last'.err = "SqlError"
               /\ catalog' = catalog
      ]_vars

(* A text whose first statement would have dropped the loaded t and whose second is in error *)
C14_DropBeforeBadStatement ==
    /\ statement.s = "Text"
    /\ Len(statement.pieces) = 2
    /\ statement.pieces[1] = << "DROP", "TABLE", "t" >>
    /\ statement.pieces[2] \in BadPieces
    /\ ~last.ok
    /\ table_exists(catalog, "t")
    /\ unwrap(get_table(catalog, "t")).row_count > 0

(* ------------------------------------------------------------------ *)
(* Error specification: t(a) and u(a) are loaded; each step executes  *)
(* a SELECT with an expression that cannot be evaluated in one of its *)
(* clauses.                                                           *)
(* ------------------------------------------------------------------ *)

(* n, a column no table has *)
MissingColumn == Name("n")

(* a / 0 *)
DivisionByZero == BinaryOp(Name("a"), "Div", IntLit(0))

RankBy(partition_by, order_by) ==
    Function("RANK", << >>, Some(WindowSpec(partition_by, order_by)))

SelectList(e) == Query(<< Plain(e) >>, FromT, None, << >>, << >>, None, None)

Where(e) == Query(<< Plain(Name("a")) >>, FromT, Some(e), << >>, << >>, None, None)

JoinOn(e) == JoinQuery("Inner", JoinCondition_On(e))

GroupBy(e) == Query(<< Plain(CountStar) >>, FromT, None, << e >>, << >>, None, None)

Having(e) ==
    SelectStatement(FALSE, << Plain(CountStar) >>, FromT, << >>, None, << Name("a") >>,
                    Some(e), << >>, None, None)

OrderBy(e) ==
    Query(<< Plain(Name("a")) >>, FromT, None, << >>, << OrderByItem(e, TRUE, None) >>,
          None, None)

PartitionBy(e) ==
    Query(<< Plain(Name("a")),
             Plain(RankBy(<< e >>, << OrderByItem(Name("a"), TRUE, None) >>)) >>,
          FromT, None, << >>, << >>, None, None)

WindowOrderBy(e) ==
    Query(<< Plain(Name("a")),
             Plain(RankBy(<< Name("a") >>, << OrderByItem(e, TRUE, None) >>)) >>,
          FromT, None, << >>, << >>, None, None)

(* The statements with e in the clauses whose errors reach the caller *)
Checked(e) == {SelectList(e), Where(e), JoinOn(e), Having(e)}

(* The statements with e in a clause that evaluates keys *)
Keyed(e) == {GroupBy(e), OrderBy(e), PartitionBy(e), WindowOrderBy(e)}

SelectChecked ==
    \E e \in {MissingColumn, DivisionByZero} : \E stmt \in Checked(e) : Execute(stmt)

SelectKeyed ==
    \E e \in {MissingColumn, DivisionByZero} : \E stmt \in Keyed(e) : Execute(stmt)

ErrorNext == SelectChecked \/ SelectKeyed

SpecError == PairInit /\ [][ErrorNext]_vars

(* Whether every clause of a statement of the specification evaluates its expression *)
(* on a row where a is not NULL: t holds two rows, one of them with a value, and u a *)
(* row to join with                                                                   *)
every_clause_evaluates(cat) ==
    /\ Len(table_rows(cat, "t")) >= 2
    /\ \E i \in 1..Len(table_rows(cat, "t")) : ~is_null(table_rows(cat, "t")[i][1])
    /\ Len(table_rows(cat, "u")) >= 1

(* C15: when the expression of a clause raises an error on the rows it is evaluated  *)
(* on, the statement returns that error: ColumnNotFound for the unresolvable column, *)
(* SqlError for the integer division by zero, whichever clause holds the expression. *)
C15_ExpressionErrorsPropagate ==
    [][ every_clause_evaluates(catalog) =>
            /\ statement' \in Checked(MissingColumn) \cup Keyed(MissingColumn)
                   => ~last'.ok /\ last'.err = "ColumnNotFound"
            /\ statement' \in Checked(DivisionByZero) \cup Keyed(DivisionByZero)
                   => ~last'.ok /\ last'.err = "SqlError"
      ]_vars

(* ------------------------------------------------------------------ *)
(* Column specification: t(a) and u(a) are loaded; each step executes *)
(* SELECT q.c FROM t or SELECT q.c FROM t CROSS JOIN u.               *)
(* ------------------------------------------------------------------ *)

(* The aliases of t and of u under both spellings, and x, the alias of no source *)
Qualifiers == {"t", "T", "u", "U", "x"}

(* The column of t and of u under both spellings, and n, a column of neither *)
ColumnNames == {"a", "A", "n"}

QualifiedFromT(q, c) ==
    Query(<< Plain(Column(Some(q), c)) >>, FromT, None, << >>, << >>, None, None)

QualifiedFromPair(q, c) ==
    SelectStatement(FALSE, << Plain(Column(Some(q), c)) >>, FromT,
                    << Join("Cross", TableRef_Table("u", None), JoinCondition_None) >>,
                    None, << >>, None, << >>, None, None)

SelectQualifiedFromT ==
    \E q \in Qualifiers, c \in ColumnNames : Execute(QualifiedFromT(q, c))

SelectQualifiedFromPair ==
    \E q \in Qualifiers, c \in ColumnNames : Execute(QualifiedFromPair(q, c))

ColumnNext == SelectQualifiedFromT \/ SelectQualifiedFromPair

SpecColumn == PairInit /\ [][ColumnNext]_vars

(* The rows of SELECT q.a FROM t CROSS JOIN u: every row of t beside every row of u, *)
(* in the order of t and then of u, and of each pair the value of the side q names  *)
due_of_pair(cat, q) ==
    LET left == table_rows(cat, "t")
        right == table_rows(cat, "u")
    IN  [k \in 1..(Len(left) * Len(right)) |->
            IF q \in {"t", "T"} THEN left[((k - 1) \div Len(right)) + 1]
            ELSE right[((k - 1) % Len(right)) + 1]]

(* C16: q.c reads the column named c, in any case, of the source whose alias is q, *)
(* in any case; when the row holds no column with that alias and that name, the    *)
(* statement fails with ColumnNotFound.                                            *)
C16_QualifiedReferenceNeedsItsAlias ==
    [][ \A q \in Qualifiers, c \in ColumnNames :
            /\ (statement' = QualifiedFromT(q, c) /\ Len(table_rows(catalog, "t")) > 0) =>
                   IF q \in {"t", "T"} /\ c \in {"a", "A"}
                   THEN last'.ok /\ last'.val.rows = table_rows(catalog, "t")
                   ELSE ~last'.ok /\ last'.err = "ColumnNotFound"
            /\ (/\ statement' = QualifiedFromPair(q, c)
                /\ Len(table_rows(catalog, "t")) > 0
                /\ Len(table_rows(catalog, "u")) > 0) =>
                   IF q # "x" /\ c \in {"a", "A"}
                   THEN last'.ok /\ last'.val.rows = due_of_pair(catalog, q)
                   ELSE ~last'.ok /\ last'.err = "ColumnNotFound"
      ]_vars

(* ------------------------------------------------------------------ *)
(* column.rs: timestamps and their strings.  A string is the sequence *)
(* of its characters.                                                 *)
(* ------------------------------------------------------------------ *)

DigitChars == << "0", "1", "2", "3", "4", "5", "6", "7", "8", "9" >>

(* format!("{:0width$}") of a non-negative integer *)
RECURSIVE zero_padded(_, _)
zero_padded(n, width) ==
    IF n < 10 /\ width <= 1 THEN << DigitChars[n + 1] >>
    ELSE Append(zero_padded(n \div 10, width - 1), DigitChars[(n % 10) + 1])

(* The digits of a string as a number, None when a character is no digit *)
RECURSIVE digits_value(_, _, _)
digits_value(chars, i, acc) ==
    IF i > Len(chars) THEN Some(acc)
    ELSE IF \E d \in 0..9 : DigitChars[d + 1] = chars[i]
    THEN digits_value(chars, i + 1,
                      acc * 10 + (CHOOSE d \in 0..9 : DigitChars[d + 1] = chars[i]))
    ELSE None

(* str::parse to an integer: an optional sign and at least one digit *)
parse_integer(chars) ==
    LET signed(sign, body) ==
            IF Len(body) = 0 THEN None
            ELSE LET valued(v) == IF is_some(v) THEN Some(sign * unwrap(v)) ELSE None
                 IN  valued(digits_value(body, 1, 0))
    IN  IF Len(chars) > 0 /\ chars[1] = "-" THEN signed(0 - 1, Tail(chars))
        ELSE IF Len(chars) > 0 /\ chars[1] = "+" THEN signed(1, Tail(chars))
        ELSE signed(1, chars)

(* str::find of a character: its first position, 0 when absent *)
find_char(chars, c) ==
    IF \E i \in 1..Len(chars) : chars[i] = c
    THEN CHOOSE i \in 1..Len(chars) : chars[i] = c /\ \A j \in 1..(i - 1) : chars[j] # c
    ELSE 0

(* str::splitn(n, sep) *)
RECURSIVE splitn(_, _, _)
splitn(chars, n, sep) ==
    LET cut(at) == IF n <= 1 \/ at = 0 THEN << chars >>
                   ELSE << SubSeq(chars, 1, at - 1) >>
                        \o splitn(SubSeq(chars, at + 1, Len(chars)), n - 1, sep)
    IN  cut(find_char(chars, sep))

(* An i64 of microseconds, held as whole days, seconds of the day and microseconds *)
(* of the second: days * 86_400_000_000 + secs * 1_000_000 + us, with secs in       *)
(* 0..86399 and us in 0..999999                                                     *)
Micros(days, secs, us) == [days |-> days, secs |-> secs, us |-> us]

(* seconds * 1_000_000 + us for us in 0..999999 *)
micros_of_seconds(seconds, us) == Micros(seconds \div 86400, seconds % 86400, us)

(* micros / 1_000_000, as days and seconds of the day: the quotient rounds toward *)
(* zero, so a negative value with a sub-second part gives the second after        *)
i64_div_million(micros) ==
    IF micros.days < 0 /\ micros.us # 0
    THEN (IF micros.secs + 1 = 86400 THEN << micros.days + 1, 0 >>
          ELSE << micros.days, micros.secs + 1 >>)
    ELSE << micros.days, micros.secs >>

(* micros % 1_000_000: the remainder has the sign of the dividend *)
i64_rem_million(micros) ==
    IF micros.days < 0 /\ micros.us # 0 THEN micros.us - 1000000 ELSE micros.us

epoch_micros_to_ts_string(micros) ==
    LET abs(x) == IF x < 0 THEN 0 - x ELSE x
        format(ymd, secs_of_day, us) ==
            zero_padded(ymd[1], 4) \o << "-" >> \o zero_padded(ymd[2], 2) \o << "-" >>
            \o zero_padded(ymd[3], 2) \o << " " >>
            \o zero_padded(secs_of_day \div 3600, 2) \o << ":" >>
            \o zero_padded((secs_of_day % 3600) \div 60, 2) \o << ":" >>
            \o zero_padded(secs_of_day % 60, 2)
            \o (IF us = 0 THEN << >> ELSE << "." >> \o zero_padded(us, 6))
        of(total_secs) ==
            format(epoch_days_to_ymd(total_secs[1]), total_secs[2],
                   abs(i64_rem_million(micros)))
    IN  of(i64_div_million(micros))

(* date_string_to_epoch_days, on the characters of the string *)
date_chars_to_epoch_days(chars) ==
    LET checked(year, month, day) ==
            IF ~is_some(year) \/ ~is_some(month) \/ ~is_some(day) THEN None
            ELSE IF unwrap(month) < 1 \/ unwrap(month) > 12
                    \/ unwrap(day) < 1 \/ unwrap(day) > 31 THEN None
            ELSE Some(ymd_to_epoch_days(unwrap(year), unwrap(month), unwrap(day)))
        of(parts) ==
            IF Len(parts) < 3 THEN None
            ELSE checked(parse_integer(parts[1]), parse_integer(parts[2]),
                         parse_integer(parts[3]))
    IN  of(splitn(chars, 3, "-"))

(* format!("{:0<6}") of at most six characters: zeros appended up to six *)
RECURSIVE right_padded(_)
right_padded(chars) ==
    IF Len(chars) >= 6 THEN chars ELSE right_padded(Append(chars, "0"))

time_string_to_micros(chars) ==
    LET total(h, m, secs, us) ==
            IF ~is_some(h) \/ ~is_some(m) \/ ~is_some(secs) \/ ~is_some(us) THEN None
            ELSE Some(micros_of_seconds(unwrap(h) * 3600 + unwrap(m) * 60 + unwrap(secs),
                                        unwrap(us)))
        seconds(h, m, sp) ==
            total(h, m, parse_integer(sp[1]),
                  IF Len(sp) = 2
                  THEN parse_integer(right_padded(
                           SubSeq(sp[2], 1, IF Len(sp[2]) < 6 THEN Len(sp[2]) ELSE 6)))
                  ELSE Some(0))
        of(parts) ==
            IF Len(parts) < 2 THEN None
            ELSE IF Len(parts) = 3
            THEN seconds(parse_integer(parts[1]), parse_integer(parts[2]),
                         splitn(parts[3], 2, "."))
            ELSE total(parse_integer(parts[1]), parse_integer(parts[2]), Some(0), Some(0))
    IN  of(splitn(chars, 3, ":"))

(* The strings of the model carry no leading or trailing blanks for trim to remove *)
timestamp_string_to_epoch_micros(chars) ==
    LET sum(days, time_micros) ==
            IF ~is_some(days) \/ ~is_some(time_micros) THEN None
            ELSE Some(Micros(unwrap(days) + unwrap(time_micros).days,
                             unwrap(time_micros).secs, unwrap(time_micros).us))
        halves(date_part, time_part) ==
            sum(date_chars_to_epoch_days(date_part), time_string_to_micros(time_part))
        at(blank, t) ==
            IF blank > 0
            THEN halves(SubSeq(chars, 1, blank - 1), SubSeq(chars, blank + 1, Len(chars)))
            ELSE IF t > 0
            THEN halves(SubSeq(chars, 1, t - 1), SubSeq(chars, t + 1, Len(chars)))
            ELSE halves(chars, << "0", "0", ":", "0", "0", ":", "0", "0" >>)
    IN  at(find_char(chars, " "), find_char(chars, "T"))

(* ------------------------------------------------------------------ *)
(* Timestamp specification: a timestamp is displayed, and the string  *)
(* displayed is parsed.                                               *)
(* ------------------------------------------------------------------ *)

(* Days on either side of the epoch *)
MaxEpochDay == 1

(* 1901-01-01, 1972-02-29, 2000-03-01 and 2052-02-20 as days since the epoch *)
FarDays == {0 - 25202, 789, 11017, 30000}

TimestampDays == ((0 - MaxEpochDay)..MaxEpochDay) \cup FarDays

(* 00:00:00, 00:00:01, 01:01:01 and 23:59:59 *)
SecondsOfDay == {0, 1, 3661, 86399}

SubSeconds == {0, 1, 500000, 999999}

Timestamps ==
    {Micros(day, secs, us) : day \in TimestampDays, secs \in SecondsOfDay, us \in SubSeconds}

TimestampInit ==
    /\ catalog = Catalog_new
    /\ \E micros \in Timestamps : statement = [s |-> "Timestamp", micros |-> micros]
    /\ last = Ok(QueryResult_empty)

DisplayTimestamp ==
    /\ statement.s = "Timestamp"
    /\ statement' = [s |-> "Displayed", micros |-> statement.micros,
                     text |-> epoch_micros_to_ts_string(statement.micros)]
    /\ UNCHANGED << catalog, last >>

ParseTimestamp ==
    /\ statement.s = "Displayed"
    /\ statement' = [s |-> "Parsed", micros |-> statement.micros, text |-> statement.text,
                     parsed |-> timestamp_string_to_epoch_micros(statement.text)]
    /\ UNCHANGED << catalog, last >>

TimestampNext == DisplayTimestamp \/ ParseTimestamp

SpecTimestamp == TimestampInit /\ [][TimestampNext]_vars

(* C17: parsing the string a timestamp is displayed as gives the timestamp back, for *)
(* every timestamp of a date from 1901-01-01 to 2100-01-01, those before 1970 with a *)
(* sub-second part among them.                                                       *)
C17_TimestampRoundTrip ==
    statement.s = "Parsed" => statement.parsed = Some(statement.micros)

(* ------------------------------------------------------------------ *)
(* Transaction specification: t(a) is created; each step executes     *)
(* BEGIN, COMMIT or ROLLBACK alone, or a text BEGIN; <statement>;     *)
(* COMMIT or BEGIN; <statement>; ROLLBACK.                            *)
(* ------------------------------------------------------------------ *)

(* Rows t may hold *)
MaxTransactionRows == 3

TransactionInit ==
    /\ catalog = loaded(Catalog_new, "t", SideSchema, << >>)
    /\ statement = NoStatement
    /\ last = Ok(QueryResult_empty)

TransactionWords == {"Begin", "Commit", "Rollback"}

(* INSERT INTO t VALUES (1) or (2) while t has room, UPDATE t SET a = 2, *)
(* DELETE FROM t WHERE a = 1, DELETE FROM t, SELECT a FROM t             *)
TransactionBodies ==
    { UpdateStatement("t", << Assignment("a", IntLit(2)) >>, None),
      DeleteStatement("t", Some(BinaryOp(Name("a"), "Eq", IntLit(1)))),
      DeleteStatement("t", None),
      SelectA("t") }
    \cup {InsertStatement("t", None, InsertValues_Values(<< << IntLit(v) >> >>)) :
             v \in {1, 2}}

TransactionWord == \E word \in TransactionWords : Execute([s |-> word])

TransactionBlock ==
    \E body \in TransactionBodies, end \in {"Commit", "Rollback"} :
        ExecuteWhen(IF body.s = "Insert" THEN Bound("t", MaxTransactionRows) ELSE NoBound,
                    << [s |-> "Begin"], body, [s |-> end] >>,
                    [s |-> "Block", body |-> body, end |-> end])

TransactionNext == TransactionWord \/ TransactionBlock

SpecTransaction == TransactionInit /\ [][TransactionNext]_vars

(* C18: BEGIN, COMMIT and ROLLBACK succeed and leave the catalog as it was; after  *)
(* BEGIN; <statement>; COMMIT and after BEGIN; <statement>; ROLLBACK the text has  *)
(* succeeded and t holds what the statement alone makes of it: the row an INSERT   *)
(* appended, 2 in every row after the UPDATE, the rows a DELETE did not match.     *)
C18_TransactionWordsChangeNothing ==
    [][ LET before == table_rows(catalog, "t")
            after == table_rows(catalog', "t")
        IN  /\ statement'.s \in TransactionWords => last'.ok /\ catalog' = catalog
            /\ statement'.s = "Block" =>
                   /\ last'.ok
                   /\ statement'.body.s = "Insert" =>
                          after = Append(before, << eval_expr(statement'.body.values.all_rows[1][1],
                                                              << >>, << >>).val >>)
                   /\ statement'.body.s = "Update" =>
                          after = [i \in 1..Len(before) |-> << Int64(2) >>]
                   /\ statement'.body.s = "Delete" =>
                          after = IF is_some(statement'.body.where_clause)
                                  THEN SelectSeq(before, LAMBDA row : row # << Int64(1) >>)
                                  ELSE << >>
                   /\ statement'.body.s = "Select" => catalog' = catalog
      ]_vars

(* BEGIN; INSERT; ROLLBACK has run and t holds a row: every row of t was put there *)
(* between a BEGIN and its COMMIT or ROLLBACK                                      *)
C18_RowInsertedBeforeRollbackStays ==
    /\ statement.s = "Block"
    /\ statement.end = "Rollback"
    /\ statement.body.s = "Insert"
    /\ last.ok
    /\ Len(table_rows(catalog, "t")) > 0

(* ------------------------------------------------------------------ *)
(* Update specification: t(a, b) is loaded; each step executes        *)
(* UPDATE t SET ... [WHERE ...].                                      *)
(* ------------------------------------------------------------------ *)

(* Rows loaded into t *)
MaxUpdateRows == 2

UpdateSchema == << ColumnDef("a", "Int64", TRUE), ColumnDef("b", "Int64", TRUE) >>

UpdateRowValues ==
    { << a, b >> : a \in {IntLit(1), IntLit(2), NullLit}, b \in {IntLit(1), IntLit(2), NullLit} }

(* SET a = b, b = a;  SET a = 2;  SET b = NULL *)
UpdateAssignments ==
    { << Assignment("a", Name("b")), Assignment("b", Name("a")) >>,
      << Assignment("a", IntLit(2)) >>,
      << Assignment("b", NullLit) >> }

(* no WHERE, WHERE a < b *)
UpdateWheres == { None, Some(BinaryOp(Name("a"), "Lt", Name("b"))) }

UpdateInit ==
    /\ \E rows \in SeqsUpTo(UpdateRowValues, MaxUpdateRows) :
           catalog = loaded(Catalog_new, "t", UpdateSchema, rows)
    /\ statement = NoStatement
    /\ last = Ok(QueryResult_empty)

UpdateRows ==
    \E assignments \in UpdateAssignments, where_clause \in UpdateWheres :
        Execute(UpdateStatement("t", assignments, where_clause))

UpdateNext == UpdateRows

SpecUpdate == UpdateInit /\ [][UpdateNext]_vars

UpdateCols == << Col(None, "a"), Col(None, "b") >>

(* Whether UPDATE's WHERE is truthy on a row: no clause matches every row *)
update_matches(stmt, row) ==
    ~is_some(stmt.where_clause)
    \/ is_truthy(eval_expr(unwrap(stmt.where_clause), row, UpdateCols).val)

(* A row after the UPDATE: each assigned column holds its right-hand side on the row *)
(* as it was, every other column is as it was                                        *)
due_row(stmt, row) ==
    [c \in 1..2 |->
        IF \E k \in 1..Len(stmt.assignments) :
               stmt.assignments[k].column = UpdateSchema[c].name
        THEN eval_expr(stmt.assignments[
                           CHOOSE k \in 1..Len(stmt.assignments) :
                               stmt.assignments[k].column = UpdateSchema[c].name].value,
                       row, UpdateCols).val
        ELSE row[c]]

EngineCols == << Col(None, "a"), Col(None, "d") >>

(* Whether DELETE's WHERE is truthy on a row: no clause matches every row *)
delete_matches(stmt, row) ==
    ~is_some(stmt.where_clause)
    \/ is_truthy(eval_expr(unwrap(stmt.where_clause), row, EngineCols).val)

(* C20: after DELETE FROM t [WHERE p] on an existing t, t holds the rows p was not   *)
(* truthy on, none without WHERE, with their values and in their order, under the    *)
(* same schema; every other table is as it was; affected_rows is the number of rows  *)
(* removed.                                                                          *)
C20_DeleteKeepsTheOtherRows ==
    [][ (statement'.s = "Delete" /\ table_exists(catalog, "t")) =>
            LET before == table_rows(catalog, "t")
                after == table_rows(catalog', "t")
            IN  /\ last'.ok
                /\ after = SelectSeq(before, LAMBDA row : ~delete_matches(statement', row))
                /\ unwrap(get_table(catalog', "t")).schema = EngineSchema
                /\ catalog'["U"] = catalog["U"]
                /\ last'.val.affected_rows = Len(before) - Len(after)
      ]_vars

(* ------------------------------------------------------------------ *)
(* Where specification: t(a, s) is loaded; each step executes          *)
(* SELECT a, s FROM t WHERE p, for predicates of every type.           *)
(* ------------------------------------------------------------------ *)

(* Rows loaded into t *)
MaxWhereRows == 2

WhereSchema == << ColumnDef("a", "Int64", TRUE), ColumnDef("s", "Utf8", TRUE) >>

WhereRowValues ==
    { << IntLit(1), StrLit("x") >>,
      << IntLit(0), StrLit("") >>,
      << NullLit, NullLit >> }

(* a = 1, TRUE and NULL; the integers a, 0 and 2; the float 1.0; the strings s and 'x' *)
WherePredicates ==
    { BinaryOp(Name("a"), "Eq", IntLit(1)),
      Literal(Boolean(TRUE)),
      NullLit,
      Name("a"),
      IntLit(0),
      IntLit(2),
      Literal(Float64(1)),
      Name("s"),
      StrLit("x") }

SelectWhere(p) ==
    Query(<< Plain(Name("a")), Plain(Name("s")) >>, FromT, Some(p), << >>, << >>, None, None)

WhereInit ==
    /\ \E rows \in SeqsUpTo(WhereRowValues, MaxWhereRows) :
           catalog = loaded(Catalog_new, "t", WhereSchema, rows)
    /\ statement = NoStatement
    /\ last = Ok(QueryResult_empty)

SelectFiltered == \E p \in WherePredicates : Execute(SelectWhere(p))

WhereNext == SelectFiltered

SpecWhere == WhereInit /\ [][WhereNext]_vars

WhereCols == << Col(None, "a"), Col(None, "s") >>

(* C21: SELECT a, s FROM t WHERE p returns the rows of t on which p evaluates to the *)
(* boolean TRUE, in their order, and no row on which p is NULL, FALSE, an integer, a *)
(* float or a string.                                                                *)
C21_OnlyBooleanTrueSurvivesWhere ==
    \A p \in WherePredicates :
        (statement = SelectWhere(p) /\ last.ok) =>
            last.val.rows =
                SelectSeq(table_rows(catalog, "t"),
                          LAMBDA row : eval_expr(p, row, WhereCols).val = Boolean(TRUE))

(* ------------------------------------------------------------------ *)
(* datastore.rs: add_column                                            *)
(* ------------------------------------------------------------------ *)

(* The storage of a column added to a table of row_count rows: a placeholder in *)
(* the buffer of its type and a cleared validity bit for every row              *)
added_storage(data_type, row_count) ==
    LET zeros(v) == [r \in 1..row_count |-> v]
    IN  [booleans |-> IF data_type = "Boolean" THEN zeros(FALSE) ELSE << >>,
         int64s |-> IF data_type \in {"Int64", "Date", "Timestamp", "Time"}
                    THEN zeros(0) ELSE << >>,
         float64s |-> IF data_type \in {"Float64", "Decimal"} THEN zeros(0) ELSE << >>,
         utf8s |-> IF data_type \in {"Utf8", "Interval"} THEN zeros("") ELSE << >>,
         nullmask |-> zeros(FALSE)]

add_column(store, def) ==
    IF is_some(find_column_index(store.schema, def.name))
    THEN [store |-> store, res |-> Err("SchemaError")]
    ELSE [store |-> [schema |-> Append(store.schema, def),
                     columns |-> Append(store.columns,
                                        added_storage(def.data_type, store.row_count)),
                     row_count |-> store.row_count],
          res |-> Ok(QueryResult_empty)]

(* ------------------------------------------------------------------ *)
(* Schema specification: t is created with two columns, loaded,       *)
(* widened with add_column and dropped.                               *)
(* ------------------------------------------------------------------ *)

(* Rows t may hold *)
MaxSchemaRows == 1

(* Columns t may have *)
MaxColumns == 3

(* Two spellings of one name, and another name *)
SchemaNames == {"a", "A", "b"}

SchemaDefs == {ColumnDef(n, ty, TRUE) : n \in SchemaNames, ty \in {"Int64", "Utf8"}}

CreateColumns ==
    \E first \in SchemaNames, second \in SchemaNames, if_not_exists \in BOOLEAN :
        Execute(CreateTableStatement("t", if_not_exists,
                                     << ColumnDef(first, "Int64", TRUE),
                                        ColumnDef(second, "Int64", TRUE) >>))

DropColumns == Execute(DropTableStatement("t", FALSE))

(* INSERT INTO t VALUES (1, 2) *)
InsertPair ==
    \E stmt \in {InsertStatement("t", None,
                                 InsertValues_Values(<< << IntLit(1), IntLit(2) >> >>))} :
        ExecuteWhen(Bound("t", MaxSchemaRows), << stmt >>, stmt)

(* get_table_mut("t") and add_column on the table it returns *)
AddColumn ==
    /\ table_exists(catalog, "t")
    /\ Len(unwrap(get_table(catalog, "t")).schema) < MaxColumns
    /\ \E def \in SchemaDefs :
           \E done \in {add_column(unwrap(get_table(catalog, "t")), def)} :
               /\ catalog' = put_table(catalog, "t", done.store)
               /\ statement' = [s |-> "AddColumn", def |-> def]
               /\ last' = done.res

SchemaNext == CreateColumns \/ DropColumns \/ InsertPair \/ AddColumn

SpecSchema == Init /\ [][SchemaNext]_vars

(* C22: no stored table has two columns whose names are equal without regard to *)
(* case: CREATE TABLE with such columns and add_column of such a name fail.     *)
C22_ColumnNamesUniqueWithoutCase ==
    \A store \in stored_tables :
        \A i \in 1..Len(store.schema), j \in 1..Len(store.schema) :
            i # j => ~eq_ignore_ascii_case(store.schema[i].name, store.schema[j].name)

(* ------------------------------------------------------------------ *)
(* Having specification: t(g, val) is loaded; each step executes       *)
(* SELECT COUNT( * ) FROM t HAVING h or                                *)
(* SELECT g, COUNT( * ) FROM t GROUP BY g HAVING h.                    *)
(* ------------------------------------------------------------------ *)

(* COUNT( * ) > 1, SUM(val) > 6, COUNT(val) = 0 *)
Havings ==
    { BinaryOp(CountStar, "Gt", IntLit(1)),
      BinaryOp(OverVal("SUM"), "Gt", IntLit(6)),
      BinaryOp(OverVal("COUNT"), "Eq", IntLit(0)) }

HavingOverTable(having) ==
    SelectStatement(FALSE, << Plain(CountStar) >>, FromT, << >>, None, << >>, having,
                    << >>, None, None)

HavingPerGroup(having) ==
    SelectStatement(FALSE, << Plain(Name("g")), Plain(CountStar) >>, FromT, << >>, None,
                    << Name("g") >>, having, << >>, None, None)

SelectHavingOverTable ==
    \E having \in {None} \cup {Some(h) : h \in Havings} : Execute(HavingOverTable(having))

SelectHavingPerGroup ==
    \E having \in {None} \cup {Some(h) : h \in Havings} : Execute(HavingPerGroup(having))

HavingNext == SelectHavingOverTable \/ SelectHavingPerGroup

SpecHaving == AggInit /\ [][HavingNext]_vars

AggCols == << Col(None, "g"), Col(None, "val") >>

(* Whether HAVING is absent or truthy on the group of the rows at indices *)
having_keeps(having, rows, indices) ==
    ~is_some(having)
    \/ is_truthy(eval_expr_agg(unwrap(having), rows, ascending(indices), AggCols).val)

(* The rows of t whose g is the given one *)
rows_of_group(rows, g) == {i \in 1..Len(rows) : rows[i][1] = g}

(* C23: an aggregated SELECT returns a row for a group exactly when HAVING is absent *)
(* or truthy on the group: without GROUP BY the one row of the whole table or no     *)
(* row, with GROUP BY g one row for each g whose rows HAVING is truthy on.           *)
C23_HavingDiscardsGroups ==
    \A having \in {None} \cup {Some(h) : h \in Havings} :
        LET rows == table_rows(catalog, "t")
        IN  /\ statement = HavingOverTable(having) =>
                   /\ last.ok
                   /\ Len(last.val.rows) =
                          IF having_keeps(having, rows, 1..Len(rows)) THEN 1 ELSE 0
            /\ statement = HavingPerGroup(having) =>
                   /\ last.ok
                   /\ {last.val.rows[p][1] : p \in 1..Len(last.val.rows)} =
                          {rows[i][1] : i \in {j \in 1..Len(rows) :
                              having_keeps(having, rows, rows_of_group(rows, rows[j][1]))}}
                   /\ \A p \in 1..Len(last.val.rows), q \in 1..Len(last.val.rows) :
                          p # q => last.val.rows[p][1] # last.val.rows[q][1]

(* ------------------------------------------------------------------ *)
(* Depth specification: t(g, val) is loaded; each step executes        *)
(* SELECT e FROM t for an e that holds SUM(val) at some depth, or      *)
(* SELECT g FROM t GROUP BY g.                                         *)
(* ------------------------------------------------------------------ *)

(* inner, inner + 1, ABS(inner) and inner IS NULL *)
Shapes == {"Bare", "Plus", "Abs", "IsNull"}

Shaped(shape, inner) ==
    CASE shape = "Bare" -> inner
      [] shape = "Plus" -> BinaryOp(inner, "Add", IntLit(1))
      [] shape = "Abs" -> Function("ABS", << inner >>, None)
      [] OTHER -> IsNull(inner, FALSE)

SelectShaped(shape) ==
    Query(<< Plain(Shaped(shape, OverVal("SUM"))) >>, FromT, None, << >>, << >>, None, None)

SelectGroupKey ==
    Query(<< Plain(Name("g")) >>, FromT, None, << Name("g") >>, << >>, None, None)

SelectDeepAggregate == \E shape \in Shapes : Execute(SelectShaped(shape))

SelectKeyOnly == Execute(SelectGroupKey)

DepthNext == SelectDeepAggregate \/ SelectKeyOnly

SpecDepth == AggInit /\ [][DepthNext]_vars

(* SUM(val) over the rows: the sum of the values that are not NULL, NULL if there is none *)
due_sum(rows) ==
    LET valued == {i \in 1..Len(rows) : ~is_null(rows[i][2])}
    IN  IF valued = {} THEN Null
        ELSE Int64(sum_of([p \in 1..Len(rows) |-> rows[p][2]], "Int64"))

(* C24: a SELECT whose list holds an aggregate call at any depth is executed as an *)
(* aggregated query: SELECT e FROM t returns one row, e over SUM(val) of the whole *)
(* table; SELECT g FROM t GROUP BY g returns one row for each g.                   *)
C24_AggregateAtAnyDepth ==
    LET rows == table_rows(catalog, "t")
    IN  /\ \A shape \in Shapes :
               statement = SelectShaped(shape) =>
                   /\ last.ok
                   /\ last.val.rows =
                          << << eval_expr(Shaped(shape, Literal(due_sum(rows))),
                                          << >>, << >>).val >> >>
        /\ statement = SelectGroupKey =>
               /\ last.ok
               /\ Len(last.val.rows) = Cardinality({rows[i][1] : i \in 1..Len(rows)})
               /\ {last.val.rows[p] : p \in 1..Len(last.val.rows)} =
                      {<< rows[i][1] >> : i \in 1..Len(rows)}

(* ------------------------------------------------------------------ *)
(* Using specification: t(a) and u(a) are loaded; each step executes   *)
(* SELECT * FROM t JOIN u USING (a), alone or followed by              *)
(* JOIN u AS w USING (a).                                              *)
(* ------------------------------------------------------------------ *)

UsingJoin(table) == Join("Inner", table, JoinCondition_Using(<< "a" >>))

UsingOnce ==
    SelectStatement(FALSE, << SelectItem_Wildcard >>, FromT,
                    << UsingJoin(TableRef_Table("u", None)) >>,
                    None, << >>, None, << >>, None, None)

UsingTwice ==
    SelectStatement(FALSE, << SelectItem_Wildcard >>, FromT,
                    << UsingJoin(TableRef_Table("u", None)),
                       UsingJoin(TableRef_Table("u", Some("w"))) >>,
                    None, << >>, None, << >>, None, None)

SelectUsing == Execute(UsingOnce)

SelectUsingChain == Execute(UsingTwice)

UsingNext == SelectUsing \/ SelectUsingChain

SpecUsing == PairInit /\ [][UsingNext]_vars

(* C25: every row of an inner join with USING (a) pairs a left row and a row of the   *)
(* joined table whose values of a are equal and not NULL: t.a = u.a in the rows of t  *)
(* JOIN u, and the a of the left input = w.a in the rows of (t JOIN u) JOIN u AS w.   *)
C25_UsingComparesWithJoinedTable ==
    /\ statement = UsingOnce =>
           /\ last.ok
           /\ \A p \in 1..Len(last.val.rows) :
                  scalar_eq(last.val.rows[p][1], last.val.rows[p][2])
    /\ statement = UsingTwice =>
           /\ last.ok
           /\ \A p \in 1..Len(last.val.rows) :
                  /\ scalar_eq(last.val.rows[p][1], last.val.rows[p][3])
                  /\ scalar_eq(last.val.rows[p][2], last.val.rows[p][3])

(* ------------------------------------------------------------------ *)
(* Order specification: ORDER BY val with every direction and NULLS   *)
(* clause over the table of the aggregation specification             *)
(* ------------------------------------------------------------------ *)

NullsClauses == {None, Some(TRUE), Some(FALSE)}

(* SELECT g, val FROM t ORDER BY val [ASC | DESC] [NULLS FIRST | NULLS LAST] *)
SelectOrderedBy(asc, nulls_first) ==
    Query(<< Plain(Name("g")), Plain(Name("val")) >>, FromT, None, << >>,
          << OrderByItem(Name("val"), asc, nulls_first) >>, None, None)

SelectNullsOrdered ==
    \E asc \in BOOLEAN, nulls_first \in NullsClauses :
        Execute(SelectOrderedBy(asc, nulls_first))

(* SELECT g, val FROM t *)
SelectNoOrder ==
    Execute(Query(<< Plain(Name("g")), Plain(Name("val")) >>, FromT, None, << >>, << >>,
                  None, None))

OrderNext == SelectNullsOrdered \/ SelectNoOrder

SpecOrder == AggInit /\ [][OrderNext]_vars

nulls_come_first(rows) ==
    \A i, j \in 1..Len(rows) : (is_null(rows[i][2]) /\ ~is_null(rows[j][2])) => i < j

nulls_come_last(rows) ==
    \A i, j \in 1..Len(rows) : (is_null(rows[i][2]) /\ ~is_null(rows[j][2])) => j < i

(* C26: ORDER BY val NULLS FIRST puts every row with a NULL key before every row with *)
(* a non-null key and NULLS LAST puts them after, for ASC and for DESC alike; with no *)
(* NULLS clause the NULL keys come last for ASC and first for DESC.                   *)
C26_NullsPlacementFollowsClause ==
    \A asc \in BOOLEAN, nulls_first \in NullsClauses :
        (statement = SelectOrderedBy(asc, nulls_first) /\ last.ok) =>
            IF is_some(nulls_first)
            THEN (IF unwrap(nulls_first) THEN nulls_come_first(last.val.rows)
                                         ELSE nulls_come_last(last.val.rows))
            ELSE (IF asc THEN nulls_come_last(last.val.rows)
                               ELSE nulls_come_first(last.val.rows))

(* The parts of C26 that hold: every ASC clause and both defaults. *)
C26_AscendingAndDefaultsHold ==
    \A asc \in BOOLEAN, nulls_first \in NullsClauses :
        (statement = SelectOrderedBy(asc, nulls_first) /\ last.ok
            /\ (asc \/ ~is_some(nulls_first))) =>
            IF is_some(nulls_first)
            THEN (IF unwrap(nulls_first) THEN nulls_come_first(last.val.rows)
                                         ELSE nulls_come_last(last.val.rows))
            ELSE (IF asc THEN nulls_come_last(last.val.rows)
                               ELSE nulls_come_first(last.val.rows))

(* ------------------------------------------------------------------ *)
(* Window column specification: RANK() projected after named columns, *)
(* after * and after t.*, over the table of the query specification   *)
(* ------------------------------------------------------------------ *)

RankItem == SelectItem_Expr(RankOver, Some("r"))

(* SELECT <leading>, RANK() OVER (PARTITION BY p ORDER BY k DESC) AS r FROM t *)
RankAfter(leading) ==
    Query(leading \o << RankItem >>, FromT, None, << >>, << >>, None, None)

NamedLeading == << Plain(Name("name")), Plain(Name("p")), Plain(Name("k")) >>

WildcardLeadings == { << SelectItem_Wildcard >>, << SelectItem_TableWildcard("t") >> }

SelectRankAfterColumns == Execute(RankAfter(NamedLeading))

SelectRankAfterWildcard == \E leading \in WildcardLeadings : Execute(RankAfter(leading))

(* SELECT RANK() OVER (PARTITION BY p ORDER BY k DESC) AS r, * FROM t *)
RankBeforeWildcard ==
    Query(<< RankItem, SelectItem_Wildcard >>, FromT, None, << >>, << >>, None, None)

SelectRankBeforeWildcard == Execute(RankBeforeWildcard)

WindowColumnNext ==
    SelectRankAfterColumns \/ SelectRankAfterWildcard \/ SelectRankBeforeWildcard

SpecWindowColumn == QueryInit /\ [][WindowColumnNext]_vars

(* 1 + the number of rows with the same p and a strictly greater k *)
rank_in(rows, i) ==
    1 + Cardinality({j \in 1..Len(rows) : rows[j][2] = rows[i][2] /\ rows[j][3].i > rows[i][3].i})

(* the rows of the table, each followed by its rank *)
ranked_after(rows) == [i \in 1..Len(rows) |-> Append(rows[i], Int64(rank_in(rows, i)))]

(* the rows of the table, each preceded by its rank *)
ranked_before(rows) == [i \in 1..Len(rows) |-> << Int64(rank_in(rows, i)) >> \o rows[i]]

(* C27: the values of RANK() are written to the output column of the item that holds *)
(* the window call and every other output column keeps its projected value, whether  *)
(* the items before it are named columns, * or t.*.                                   *)
C27_WindowValuesInOwnColumn ==
    /\ \A leading \in {NamedLeading} \cup WildcardLeadings :
           (statement = RankAfter(leading) /\ last.ok) =>
               last.val.rows = ranked_after(table_rows(catalog, "t"))
    /\ (statement = RankBeforeWildcard /\ last.ok) =>
           last.val.rows = ranked_before(table_rows(catalog, "t"))

(* The part of C27 that holds: no * or t.* before the window item. *)
C27_HoldsWithoutLeadingWildcard ==
    /\ (statement = RankAfter(NamedLeading) /\ last.ok) =>
           last.val.rows = ranked_after(table_rows(catalog, "t"))
    /\ (statement = RankBeforeWildcard /\ last.ok) =>
           last.val.rows = ranked_before(table_rows(catalog, "t"))

(* ------------------------------------------------------------------ *)
(* Atomicity specification: statements that fail part-way, on the     *)
(* table of the engine specification                                  *)
(* ------------------------------------------------------------------ *)

MaxAtomicRows == 2

(* (1, NULL) is stored, (NULL, NULL) breaks NOT NULL, (1, 'bad') fails the date parse *)
AtomicRowValues ==
    { << IntLit(1), NullLit >>, << NullLit, NullLit >>, << IntLit(1), StrLit("bad") >> }

(* INSERT INTO t VALUES row [, row] *)
InsertRowLists == { rows \in SeqsUpTo(AtomicRowValues, 2) : Len(rows) > 0 }

InsertRows ==
    \E rows \in InsertRowLists :
        ExecuteWhen(Bound("t", MaxAtomicRows),
                    << InsertStatement("t", None, InsertValues_Values(rows)) >>,
                    InsertStatement("t", None, InsertValues_Values(rows)))

AtomicNext == CreateTable \/ InsertRows \/ Update

SpecAtomic == Init /\ [][AtomicNext]_vars

(* C28: a statement that returns an error leaves the catalog as it was before the *)
(* statement.                                                                      *)
C28_ErrorLeavesCatalogUnchanged == [][~last'.ok => catalog' = catalog]_vars

(* ------------------------------------------------------------------ *)
(* Read-only specification: texts whose top level is SELECT, WITH or  *)
(* UNION, some with a DELETE or DROP TABLE as a sub-statement, on the *)
(* tables t and u of the join specification                           *)
(* ------------------------------------------------------------------ *)

SubStatements == { << "DELETE", "FROM", "t" >>, << "DROP", "TABLE", "u" >>,
                   << "SELECT", "*", "FROM", "u" >> }

(* SELECT * FROM t ; SELECT * FROM ( sub ) s ; WITH c AS ( sub ) SELECT * FROM t ; *)
(* SELECT * FROM t UNION ( sub ) ; SELECT * FROM t UNION sub                       *)
QueryTexts ==
    { << "SELECT", "*", "FROM", "t" >> }
    \cup { << "SELECT", "*", "FROM", "(" >> \o sub \o << ")", "s" >> : sub \in SubStatements }
    \cup { << "WITH", "c", "AS", "(" >> \o sub \o << ")", "SELECT", "*", "FROM", "t" >> :
             sub \in SubStatements }
    \cup { << "SELECT", "*", "FROM", "t", "UNION", "(" >> \o sub \o << ")" >> :
             sub \in SubStatements }
    \cup { << "SELECT", "*", "FROM", "t", "UNION" >> \o sub : sub \in SubStatements }

ExecuteQueryText ==
    \E text \in QueryTexts :
        \E done \in {execute_sql(catalog, text)} :
            /\ catalog' = done.cat
            /\ statement' = [s |-> "Text", pieces |-> << text >>]
            /\ last' = done.res

ReadOnlyNext == ExecuteQueryText

SpecReadOnly == PairInit /\ [][ReadOnlyNext]_vars

(* the one statement the text parses to, when it parses to one *)
parsed_top(text) ==
    LET one(stmts) == IF stmts.ok /\ Len(stmts.val) = 1 THEN stmts.val[1].s ELSE "None"
    IN  one(parse_tokens(tokenize(text, 1, << >>)))

(* C29: executing a text that parses to one statement whose top level is SELECT, WITH *)
(* or a set operation leaves the catalog as it was.                                   *)
C29_QueryLeavesCatalogUnchanged ==
    [][\A text \in QueryTexts :
          (statement' = [s |-> "Text", pieces |-> << text >>]
              /\ parsed_top(text) \in {"Select", "With", "SetOp"}) =>
              catalog' = catalog]_vars

(* The part of C29 that holds: every sub-statement is itself a SELECT. *)
C29_HoldsForNestedSelects ==
    [][\A text \in QueryTexts :
          (statement' = [s |-> "Text", pieces |-> << text >>]
              /\ parsed_top(text) \in {"Select", "With", "SetOp"}
              /\ \A i \in 1..Len(text) : text[i] \notin {"DELETE", "DROP"}) =>
              catalog' = catalog]_vars

(* ------------------------------------------------------------------ *)
(* Division specification: / and % on integers, the divisor a literal *)
(* or the column a of t, in a select list, a WHERE and an UPDATE      *)
(* ------------------------------------------------------------------ *)

MaxDivRows == 2

DivSchema == << ColumnDef("a", "Int64", TRUE) >>

DivRowValues == { << IntLit(0) >>, << IntLit(1) >>, << IntLit(2) >> }

DivInit ==
    /\ \E rows \in SeqsUpTo(DivRowValues, MaxDivRows) :
           catalog = loaded(Catalog_new, "t", DivSchema, rows)
    /\ statement = NoStatement
    /\ last = Ok(QueryResult_empty)

DivOps == {"Div", "Mod"}

(* SELECT a <op> n FROM t *)
ByLiteral(op, n) ==
    Query(<< Plain(BinaryOp(Name("a"), op, IntLit(n))) >>, FromT, None, << >>, << >>,
          None, None)

(* SELECT 1 <op> a FROM t *)
ByColumn(op) ==
    Query(<< Plain(BinaryOp(IntLit(1), op, Name("a"))) >>, FromT, None, << >>, << >>,
          None, None)

(* SELECT a FROM t WHERE 1 <op> a = 0 *)
InWhere(op) ==
    Query(<< Plain(Name("a")) >>, FromT,
          Some(BinaryOp(BinaryOp(IntLit(1), op, Name("a")), "Eq", IntLit(0))),
          << >>, << >>, None, None)

(* UPDATE t SET a = 1 <op> a *)
InUpdate(op) ==
    UpdateStatement("t", << Assignment("a", BinaryOp(IntLit(1), op, Name("a"))) >>, None)

SelectDivided ==
    \E op \in DivOps, n \in {0, 2} : Execute(ByLiteral(op, n))

SelectDividedByColumn ==
    \E op \in DivOps : \E stmt \in {ByColumn(op), InWhere(op)} : Execute(stmt)

UpdateDivided == \E op \in DivOps : Execute(InUpdate(op))

DivNext == SelectDivided \/ SelectDividedByColumn \/ UpdateDivided

SpecDiv == DivInit /\ [][DivNext]_vars

(* the statement evaluates <op> with an integer divisor 0 on the rows *)
zero_divisor_met(stmt, op, rows) ==
    \/ stmt = ByLiteral(op, 0) /\ Len(rows) > 0
    \/ /\ stmt \in {ByColumn(op), InWhere(op), InUpdate(op)}
       /\ \E r \in 1..Len(rows) : rows[r][1] = Int64(0)

DivStatements(op) == {ByLiteral(op, 0), ByColumn(op), InWhere(op), InUpdate(op)}

(* C30: a statement that evaluates a / b or a % b on integers with b = 0 returns a *)
(* SqlError, never panics, and leaves the catalog as it was.                       *)
C30_ZeroDivisorIsSqlError ==
    [][\A op \in DivOps : \A stmt \in DivStatements(op) :
          (statement' = stmt /\ zero_divisor_met(stmt, op, table_rows(catalog, "t"))) =>
              (last' = Err("SqlError") /\ catalog' = catalog)]_vars

(* The part of C30 that holds: division. *)
C30_HoldsForDivision ==
    [][\A stmt \in DivStatements("Div") :
          (statement' = stmt /\ zero_divisor_met(stmt, "Div", table_rows(catalog, "t"))) =>
              (last' = Err("SqlError") /\ catalog' = catalog)]_vars

====
